---------------------------- MODULE Spec2Model ----------------------------
(***************************************************************************)
(* JSON-to-relational staging engine of the Open Targets MCP server.       *)
(*                                                                         *)
(* Text is modelled by TLA+ strings (sequences of characters): Len, SubSeq *)
(* and \o are JavaScript's length, slice and concatenation.  A JSON value  *)
(* is a tagged record; an object keeps its entries in Object.entries order.*)
(***************************************************************************)
EXTENDS Integers, Sequences, FiniteSets, TLC

VARIABLES comp,      \* compartment id -> the Durable Object's SQL storage and last response
          store,     \* the chunk store exercised on its own (storage, tokens handed out, last read)
          norm,      \* an identifier and what the sanitiser applied to it has returned so far
          observed,  \* the values observed in one column, their classes and the class resolved
          worker     \* the worker: datasetRegistry (the access ids listed under /datasets) and
                     \* its answer to the last DELETE /datasets/<id>

vars == <<comp, store, norm, observed, worker>>

\* Every operation is entered through call, the one dispatcher of the model: call(f, a)
\* applies the operation named f to the arguments a.
RECURSIVE call(_, _)

(***************************************************************************)
(* Characters and strings                                                  *)
(***************************************************************************)
Ch(s, i) == SubSeq(s, i, i)

UpperStr == "ABCDEFGHIJKLMNOPQRSTUVWXYZ"
LowerStr == "abcdefghijklmnopqrstuvwxyz"
DigitStr == "0123456789"

CharsOf(s) == { Ch(s, i) : i \in 1..Len(s) }
UpperChars == CharsOf(UpperStr)
LowerChars == CharsOf(LowerStr)
DigitChars == CharsOf(DigitStr)
\* \w of a JavaScript regular expression
WordChars == UpperChars \cup LowerChars \cup DigitChars \cup {"_"}
\* \s of a JavaScript regular expression (the characters the model's texts use)
SpaceChars == {" ", "\t", "\n"}

lowerOf == [c \in UpperChars |-> Ch(LowerStr, CHOOSE i \in 1..26 : Ch(UpperStr, i) = c)]
upperOf == [c \in LowerChars |-> Ch(UpperStr, CHOOSE i \in 1..26 : Ch(LowerStr, i) = c)]
toLowerChar(c) == IF c \in UpperChars THEN lowerOf[c] ELSE c
toUpperChar(c) == IF c \in LowerChars THEN upperOf[c] ELSE c

RECURSIVE toLowerCase(_)
toLowerCase(s) ==
    IF s = "" THEN "" ELSE toLowerChar(Head(s)) \o toLowerCase(Tail(s))

startsWith(s, p) == Len(s) >= Len(p) /\ SubSeq(s, 1, Len(p)) = p
endsWith(s, p) == Len(s) >= Len(p) /\ SubSeq(s, Len(s) - Len(p) + 1, Len(s)) = p
includes(s, p) == \E i \in 1..(Len(s) - Len(p) + 1) : SubSeq(s, i, i + Len(p) - 1) = p

\* String.prototype.trim
RECURSIVE trimStart(_)
trimStart(s) == IF s # "" /\ Head(s) \in SpaceChars THEN trimStart(Tail(s)) ELSE s
RECURSIVE trimEnd(_)
trimEnd(s) ==
    IF s # "" /\ Ch(s, Len(s)) \in SpaceChars THEN trimEnd(SubSeq(s, 1, Len(s) - 1)) ELSE s
trim(s) == trimEnd(trimStart(s))

\* s.replace(/[^a-zA-Z0-9_]/g, '_')
RECURSIVE replaceNonWord(_)
replaceNonWord(s) ==
    IF s = "" THEN ""
    ELSE (IF Head(s) \in WordChars THEN Head(s) ELSE "_") \o replaceNonWord(Tail(s))

\* s.replace(/_{2,}/g, '_')
RECURSIVE collapseUnderscores(_)
collapseUnderscores(s) ==
    IF Len(s) < 2 THEN s
    ELSE IF Head(s) = "_" /\ Ch(s, 2) = "_" THEN collapseUnderscores(Tail(s))
    ELSE Head(s) \o collapseUnderscores(Tail(s))

\* s.replace(/^_|_$/g, '')
trimUnderscore(s) ==
    LET a == IF s # "" /\ Head(s) = "_" THEN Tail(s) ELSE s
    IN  IF a # "" /\ Ch(a, Len(a)) = "_" THEN SubSeq(a, 1, Len(a) - 1) ELSE a

\* s.replace(/([A-Z])/g, '_$1')
RECURSIVE prefixUpper(_)
prefixUpper(s) ==
    IF s = "" THEN ""
    ELSE (IF Head(s) \in UpperChars THEN "_" \o Head(s) ELSE Head(s)) \o prefixUpper(Tail(s))

\* /^[0-9]/.test(s)
startsWithDigit(s) == s # "" /\ Head(s) \in DigitChars

(***************************************************************************)
(* Identifier sanitisers.  Math.random().toString(36).substr(2, 9) is the  *)
(* argument r: the suffix the call draws if it needs one.                  *)
(***************************************************************************)
tableReservedWords ==
    {"table", "index", "view", "column", "primary", "key", "foreign", "constraint"}

columnReservedWords ==
    {"table", "index", "view", "column", "primary", "key", "foreign", "constraint",
     "order", "group", "select", "from", "where"}

reservedWords ==
    {"table", "index", "view", "column", "primary", "key", "foreign", "constraint",
     "order", "group", "select", "from", "where", "insert", "update", "delete",
     "create", "drop", "alter", "join", "inner", "outer", "left", "right",
     "union", "all", "distinct", "having", "limit", "offset", "as", "on"}

openTargetsTerms ==
    << <<"ensemblid", "ensembl_id">>, <<"efoid", "efo_id">>, <<"chemblid", "chembl_id">>,
       <<"approvedsymbol", "approved_symbol">>, <<"approvedname", "approved_name">>,
       <<"geneticconstraint", "genetic_constraint">>,
       <<"mechanismsofaction", "mechanisms_of_action">>,
       <<"therapeuticareas", "therapeutic_areas">>,
       <<"pharmacovigilance", "pharmacovigilance">> >>

tableNameCore(name) ==
    LET s == toLowerCase(trimUnderscore(collapseUnderscores(replaceNonWord(name))))
    IN  IF startsWithDigit(s) THEN "table_" \o s ELSE s

\* 1 when sanitizeTableName(name) calls Math.random, else 0
tableNameDraws(name) == IF name = "" \/ call("tableNameCore", <<name>>) = "" THEN 1 ELSE 0

sanitizeTableName(name, r) ==
    IF name = "" THEN "table_" \o r
    ELSE LET s0 == call("tableNameCore", <<name>>)
             s1 == IF s0 = "" THEN "table_" \o r ELSE s0
         IN  IF s1 \in tableReservedWords THEN s1 \o "_table" ELSE s1

columnNameCore(name) ==
    LET s == trimUnderscore(collapseUnderscores(replaceNonWord(toLowerCase(prefixUpper(name)))))
    IN  IF startsWithDigit(s) THEN "col_" \o s ELSE s

\* 1 when sanitizeColumnName(name) calls Math.random, else 0
columnNameDraws(name) == IF name = "" \/ call("columnNameCore", <<name>>) = "" THEN 1 ELSE 0

sanitizeColumnName(name, r) ==
    IF name = "" THEN "column_" \o r
    ELSE LET s0 == call("columnNameCore", <<name>>)
             snakeCase == IF s0 = "" THEN "column_" \o r ELSE s0
             result == IF \E i \in 1..Len(openTargetsTerms) : openTargetsTerms[i][1] = snakeCase
                       THEN openTargetsTerms[CHOOSE i \in 1..Len(openTargetsTerms) :
                                                 openTargetsTerms[i][1] = snakeCase][2]
                       ELSE snakeCase
         IN  IF result \in columnReservedWords THEN result \o "_col" ELSE result

validateAndFixIdentifierMissingReserved(name, type) ==
    IF name = "" THEN (IF type = "table" THEN "fallback_table" ELSE "fallback_column")
    ELSE LET f0 == trimUnderscore(collapseUnderscores(replaceNonWord(name)))
             f1 == IF startsWithDigit(f0)
                   THEN (IF type = "table" THEN "table_" ELSE "col_") \o f0 ELSE f0
             f2 == IF f1 = ""
                   THEN (IF type = "table" THEN "fallback_table" ELSE "fallback_column") ELSE f1
         IN  toLowerCase(f2)

validateAndFixIdentifier(name, type) ==
    IF name = "" THEN (IF type = "table" THEN "fallback_table" ELSE "fallback_column")
    ELSE LET f0 == trimUnderscore(collapseUnderscores(replaceNonWord(name)))
             f1 == IF startsWithDigit(f0)
                   THEN (IF type = "table" THEN "table_" ELSE "col_") \o f0 ELSE f0
             f2 == IF f1 = ""
                   THEN (IF type = "table" THEN "fallback_table" ELSE "fallback_column") ELSE f1
             f3 == IF toLowerCase(f2) \in reservedWords
                   THEN f2 \o (IF type = "table" THEN "_tbl" ELSE "_col") ELSE f2
         IN  toLowerCase(f3)

(***************************************************************************)
(* JSON values.  A number is n + f/10 (f = 0 for an integer).  An object   *)
(* carries oid, the identity of the JavaScript object that request.json()  *)
(* built for it (0 before parsing).                                        *)
(***************************************************************************)
JUndef == [t |-> "undef"]
JNull == [t |-> "null"]
JBool(b) == [t |-> "bool", b |-> b]
JInt(n) == [t |-> "num", n |-> n, f |-> 0]
JReal(n, f) == [t |-> "num", n |-> n, f |-> f]
JStr(s) == [t |-> "str", s |-> s]
JArr(a) == [t |-> "arr", a |-> a]
JObj(o) == [t |-> "obj", o |-> o, oid |-> 0]
KV(k, v) == [k |-> k, v |-> v]

IsObj(v) == v.t = "obj"
IsArr(v) == v.t = "arr"
\* typeof v === 'object'
TypeofObject(v) == v.t \in {"obj", "arr", "null"}
Truthy(v) ==
    CASE v.t = "undef" -> FALSE
      [] v.t = "null" -> FALSE
      [] v.t = "bool" -> v.b
      [] v.t = "num" -> v.n # 0 \/ v.f # 0
      [] v.t = "str" -> v.s # ""
      [] OTHER -> TRUE

\* obj[key] and Object.keys(obj) of an object value
Has(obj, key) == \E i \in 1..Len(obj.o) : obj.o[i].k = key
Get(obj, key) ==
    IF Has(obj, key) THEN obj.o[CHOOSE i \in 1..Len(obj.o) : obj.o[i].k = key].v ELSE JUndef
Keys(obj) == [i \in 1..Len(obj.o) |-> obj.o[i].k]

\* insertion-ordered Map / plain object: a sequence of [k, v]
MapHas(m, k) == \E i \in 1..Len(m) : m[i].k = k
MapGet(m, k) == m[CHOOSE i \in 1..Len(m) : m[i].k = k].v
MapSet(m, k, v) ==
    IF MapHas(m, k) THEN [i \in 1..Len(m) |-> IF m[i].k = k THEN KV(k, v) ELSE m[i]]
    ELSE Append(m, KV(k, v))
MapKeys(m) == [i \in 1..Len(m) |-> m[i].k]
SeqHas(q, x) == \E i \in 1..Len(q) : q[i] = x

\* request.json(): every object of the parsed tree is a fresh JavaScript object
RECURSIVE AssignIds(_, _)
RECURSIVE AssignIdsSeq(_, _, _)
RECURSIVE AssignIdsEntries(_, _, _)
AssignIds(v, n) ==
    CASE v.t = "arr" -> LET r == AssignIdsSeq(v.a, <<>>, n) IN [v |-> JArr(r.v), n |-> r.n]
      [] v.t = "obj" -> LET r == AssignIdsEntries(v.o, <<>>, n + 1)
                        IN  [v |-> [t |-> "obj", o |-> r.v, oid |-> n + 1], n |-> r.n]
      [] OTHER -> [v |-> v, n |-> n]
AssignIdsSeq(a, done, n) ==
    IF a = <<>> THEN [v |-> done, n |-> n]
    ELSE LET r == AssignIds(Head(a), n) IN AssignIdsSeq(Tail(a), Append(done, r.v), r.n)
AssignIdsEntries(o, done, n) ==
    IF o = <<>> THEN [v |-> done, n |-> n]
    ELSE LET r == AssignIds(Head(o).v, n)
         IN  AssignIdsEntries(Tail(o), Append(done, KV(Head(o).k, r.v)), r.n)
requestJson(body) == AssignIds(body, 0).v

\* Math.random().toString(36).substr(2, 9) of the (k+1)-th call of an operation whose
\* generator is in state rnd: no two calls of one operation return the same text
draw(rnd, k) == rnd \o ToString(k + 1)

(***************************************************************************)
(* SchemaInferenceEngine                                                   *)
(***************************************************************************)
isEntity(obj) ==
    /\ obj.t = "obj"
    /\ LET hasId == \E key \in {"id", "_id", "ensemblId", "efoId", "chemblId"} : Has(obj, key)
           hasMultipleFields == Len(obj.o) >= 2
           hasEntityFields ==
               \E key \in {"name", "approvedSymbol", "description", "type", "score"} : Has(obj, key)
       IN  hasId \/ (hasMultipleFields /\ hasEntityFields)

\* the path segment inferEntityType singularises
lastNameOf(path) ==
    LET n == Len(path)
        last == path[n]
    IN  IF last = "node" /\ n > 1
        THEN (IF path[n - 1] = "edges" /\ n > 2 THEN path[n - 2] ELSE path[n - 1])
        ELSE IF last = "edges" /\ n > 1 THEN path[n - 1]
        ELSE IF last = "rows" /\ n > 1 THEN path[n - 1]
        ELSE last

singularize(sanitized) ==
    IF endsWith(sanitized, "ies") THEN SubSeq(sanitized, 1, Len(sanitized) - 3) \o "y"
    ELSE IF endsWith(sanitized, "s") /\ ~endsWith(sanitized, "ss") /\ Len(sanitized) > 1
              /\ Len(sanitized) - 1 > 1
         THEN SubSeq(sanitized, 1, Len(sanitized) - 1)
    ELSE sanitized

\* sanitizeTableName applied to a value that need not be a string
sanitizeTableNameOf(v, r) == IF v.t = "str" THEN sanitizeTableName(v.s, r) ELSE "table_" \o r
tableNameDrawsOf(v) == IF v.t = "str" THEN tableNameDraws(v.s) ELSE 1

inferEntityType(obj, path, r) ==
    LET typename == Get(obj, "__typename")
        type == Get(obj, "type")
    IN  IF Truthy(typename) THEN sanitizeTableNameOf(typename, r)
        ELSE IF Truthy(type) /\ type.t = "str" /\ toLowerCase(type.s) \notin {"edges", "node"}
             THEN sanitizeTableName(type.s, r)
        ELSE IF Truthy(Get(obj, "ensemblId")) THEN "target"
        ELSE IF Truthy(Get(obj, "efoId")) THEN "disease"
        ELSE IF Truthy(Get(obj, "chemblId")) THEN "drug"
        ELSE IF Truthy(Get(obj, "approvedSymbol")) THEN "target"
        ELSE IF Len(path) > 0 THEN singularize(sanitizeTableName(lastNameOf(path), r))
        ELSE "entity_" \o r

\* the number of Math.random() calls inferEntityType(obj, path) makes
inferEntityTypeDraws(obj, path) ==
    LET typename == Get(obj, "__typename")
        type == Get(obj, "type")
    IN  IF Truthy(typename) THEN tableNameDrawsOf(typename)
        ELSE IF Truthy(type) /\ type.t = "str" /\ toLowerCase(type.s) \notin {"edges", "node"}
             THEN tableNameDraws(type.s)
        ELSE IF \E key \in {"ensemblId", "efoId", "chemblId", "approvedSymbol"} :
                    Truthy(Get(obj, key)) THEN 0
        ELSE IF Len(path) > 0 THEN tableNameDraws(lastNameOf(path))
        ELSE 1

\* discoveredEntities.get(type).push(item)
pushEntity(ents, type, item) ==
    MapSet(ents, type, Append(IF MapHas(ents, type) THEN MapGet(ents, type) ELSE <<>>, item))

recordRelationship(rels, fromTable, toTable) ==
    IF fromTable = toTable THEN rels
    ELSE LET fromRelationships == IF MapHas(rels, fromTable) THEN MapGet(rels, fromTable) ELSE <<>>
             toRelationships == IF MapHas(rels, toTable) THEN MapGet(rels, toTable) ELSE <<>>
         IN  IF ~SeqHas(fromRelationships, toTable) /\ ~SeqHas(toRelationships, fromTable)
             THEN MapSet(rels, fromTable, Append(fromRelationships, toTable))
             ELSE rels

\* value.find(item => this.isEntity(item))
firstEntityIndex(a) ==
    IF \E i \in 1..Len(a) : isEntity(a[i])
    THEN CHOOSE i \in 1..Len(a) : isEntity(a[i]) /\ \A j \in 1..(i - 1) : ~isEntity(a[j])
    ELSE 0

\* st = [ents, rels, k]: discoveredEntities, entityRelationships, Math.random() calls so far
RECURSIVE processEntityProperties(_, _, _, _)
RECURSIVE processEntityPropertiesFrom(_, _, _, _, _)
RECURSIVE processEntityArray(_, _, _, _, _)
processEntityArray(a, i, relatedEntityType, st, rnd) ==
    IF i > Len(a) THEN st
    ELSE IF isEntity(a[i])
         THEN call("processEntityArray", <<a, i + 1, relatedEntityType,
                  processEntityProperties(a[i], relatedEntityType,
                      [st EXCEPT !.ents = pushEntity(st.ents, relatedEntityType, a[i])], rnd),
                  rnd>>)
    ELSE call("processEntityArray", <<a, i + 1, relatedEntityType, st, rnd>>)
processEntityPropertiesFrom(entity, i, entityType, st, rnd) ==
    IF i > Len(entity.o) THEN st
    ELSE
      LET key == entity.o[i].k
          value == entity.o[i].v
          st1 ==
            IF IsArr(value) /\ Len(value.a) > 0
            THEN LET f == call("firstEntityIndex", <<value.a>>)
                 IN  IF f = 0 THEN st
                     ELSE LET relatedEntityType == call("inferEntityType", <<value.a[f], <<key>>, draw(rnd, st.k)>>)
                              s0 == [st EXCEPT
                                       !.k = st.k + call("inferEntityTypeDraws", <<value.a[f], <<key>>>>),
                                       !.rels = call("recordRelationship", <<st.rels, entityType, relatedEntityType>>)]
                          IN  call("processEntityArray", <<value.a, 1, relatedEntityType, s0, rnd>>)
            ELSE IF Truthy(value) /\ TypeofObject(value) /\ isEntity(value)
            THEN LET relatedEntityType == call("inferEntityType", <<value, <<key>>, draw(rnd, st.k)>>)
                     s0 == [st EXCEPT
                              !.k = st.k + call("inferEntityTypeDraws", <<value, <<key>>>>),
                              !.rels = call("recordRelationship", <<st.rels, entityType, relatedEntityType>>),
                              !.ents = pushEntity(st.ents, relatedEntityType, value)]
                 IN  processEntityProperties(value, relatedEntityType, s0, rnd)
            ELSE st
      IN  call("processEntityPropertiesFrom", <<entity, i + 1, entityType, st1, rnd>>)
processEntityProperties(entity, entityType, st, rnd) ==
    call("processEntityPropertiesFrom", <<entity, 1, entityType, st, rnd>>)

\* obj.edges.map(edge => edge.node).filter(Boolean)
RECURSIVE edgeNodes(_)
edgeNodes(edges) ==
    IF edges = <<>> THEN <<>>
    ELSE LET node == IF IsObj(Head(edges)) THEN Get(Head(edges), "node") ELSE JUndef
         IN  (IF Truthy(node) THEN <<node>> ELSE <<>>) \o call("edgeNodes", <<Tail(edges)>>)

\* parentEntityType = "" stands for undefined
RECURSIVE discoverEntities(_, _, _, _, _)
RECURSIVE discoverArray(_, _, _, _, _, _, _)
RECURSIVE discoverChildren(_, _, _, _, _, _)
discoverArray(a, i, arrayEntityType, path, parentEntityType, st, rnd) ==
    IF i > Len(a) THEN st
    ELSE IF isEntity(a[i])
         THEN LET first == arrayEntityType = ""
                  type == IF first THEN call("inferEntityType", <<a[i], path, draw(rnd, st.k)>>)
                          ELSE arrayEntityType
                  k1 == IF first THEN st.k + call("inferEntityTypeDraws", <<a[i], path>>) ELSE st.k
                  fieldName == IF Len(path) > 0 THEN path[Len(path)] ELSE ""
                  rels1 == IF parentEntityType # "" /\ Len(path) > 0
                              /\ fieldName # "nodes" /\ fieldName # "edges"
                           THEN call("recordRelationship", <<st.rels, parentEntityType, type>>)
                           ELSE st.rels
                  s0 == [ents |-> pushEntity(st.ents, type, a[i]), rels |-> rels1, k |-> k1]
              IN  call("discoverArray", <<a, i + 1, type, path, parentEntityType,
                                processEntityProperties(a[i], type, s0, rnd), rnd>>)
    ELSE call("discoverArray", <<a, i + 1, arrayEntityType, path, parentEntityType, st, rnd>>)
discoverChildren(obj, i, path, parentEntityType, st, rnd) ==
    IF i > Len(obj.o) THEN st
    ELSE discoverChildren(obj, i + 1, path, parentEntityType,
             call("discoverEntities", <<obj.o[i].v, Append(path, obj.o[i].k), parentEntityType, st, rnd>>),
             rnd)
discoverEntities(obj, path, parentEntityType, st, rnd) ==
    IF ~Truthy(obj) \/ ~TypeofObject(obj) THEN st
    ELSE IF IsArr(obj) THEN call("discoverArray", <<obj.a, 1, "", path, parentEntityType, st, rnd>>)
    ELSE IF Truthy(Get(obj, "edges")) /\ IsArr(Get(obj, "edges"))
         THEN LET nodes == call("edgeNodes", <<Get(obj, "edges").a>>)
              IN  IF Len(nodes) > 0
                  THEN call("discoverEntities", <<JArr(nodes), path, parentEntityType, st, rnd>>)
                  ELSE st
    ELSE IF Truthy(Get(obj, "rows")) /\ IsArr(Get(obj, "rows"))
         THEN call("discoverEntities", <<Get(obj, "rows"), path, parentEntityType, st, rnd>>)
    ELSE IF isEntity(obj)
         THEN LET entityType == call("inferEntityType", <<obj, path, draw(rnd, st.k)>>)
                  s0 == [st EXCEPT !.k = st.k + call("inferEntityTypeDraws", <<obj, path>>),
                                   !.ents = pushEntity(st.ents, entityType, obj)]
              IN  processEntityProperties(obj, entityType, s0, rnd)
    ELSE discoverChildren(obj, 1, path, parentEntityType, st, rnd)

getSQLiteType(value) ==
    CASE value.t \in {"null", "undef"} -> "TEXT"
      [] value.t = "num" -> (IF value.f = 0 THEN "INTEGER" ELSE "REAL")
      [] value.t = "bool" -> "INTEGER"
      [] value.t = "str" -> "TEXT"
      [] OTHER -> "TEXT"

addColumnType(columnTypes, column, type) ==
    MapSet(columnTypes, column,
           (IF MapHas(columnTypes, column) THEN MapGet(columnTypes, column) ELSE {}) \cup {type})

hasScalarFields(obj) ==
    obj.t = "obj" /\ \E i \in 1..Len(obj.o) : ~TypeofObject(obj.o[i].v) \/ obj.o[i].v.t = "null"

\* ct = [cols, k]: the columnTypes record and the Math.random() calls so far
RECURSIVE flattenScalarFields(_, _, _, _, _)
flattenScalarFields(value, i, columnName, ct, rnd) ==
    IF i > Len(value.o) THEN ct
    ELSE LET subKey == value.o[i].k
             subValue == value.o[i].v
         IN  IF ~IsArr(subValue) /\ ~TypeofObject(subValue)
             THEN call("flattenScalarFields", <<value, i + 1, columnName,
                      [cols |-> addColumnType(ct.cols,
                                    columnName \o "_" \o call("sanitizeColumnName", <<subKey, draw(rnd, ct.k)>>),
                                    getSQLiteType(subValue)),
                       k |-> ct.k + columnNameDraws(subKey)], rnd>>)
             ELSE call("flattenScalarFields", <<value, i + 1, columnName, ct, rnd>>)

RECURSIVE extractEntityFieldsFrom(_, _, _, _)
extractEntityFieldsFrom(obj, i, ct, rnd) ==
    IF i > Len(obj.o) THEN ct
    ELSE
      LET key == obj.o[i].k
          value == obj.o[i].v
          columnName == call("sanitizeColumnName", <<key, draw(rnd, ct.k)>>)
          c0 == [ct EXCEPT !.k = ct.k + columnNameDraws(key)]
          c1 ==
            IF IsArr(value)
            THEN IF Len(value.a) > 0 /\ isEntity(value.a[1]) THEN c0
                 ELSE [c0 EXCEPT !.cols = addColumnType(c0.cols, columnName \o "_json", "TEXT")]
            ELSE IF Truthy(value) /\ TypeofObject(value)
            THEN IF isEntity(value)
                 THEN [c0 EXCEPT !.cols = addColumnType(c0.cols, columnName \o "_id", "INTEGER")]
                 ELSE IF hasScalarFields(value)
                      THEN call("flattenScalarFields", <<value, 1, columnName, c0, rnd>>)
                      ELSE [c0 EXCEPT !.cols = addColumnType(c0.cols, columnName \o "_json", "TEXT")]
            ELSE [c0 EXCEPT !.cols = addColumnType(c0.cols, columnName, getSQLiteType(value))]
      IN  call("extractEntityFieldsFrom", <<obj, i + 1, c1, rnd>>)

\* the columnTypes side of extractEntityFields (the sample row it returns is replaced by
\* generateMetadata before it is ever read)
extractEntityFields(obj, ct, rnd) ==
    IF ~Truthy(obj) \/ ~TypeofObject(obj)
    THEN [ct EXCEPT !.cols = addColumnType(ct.cols, "value", getSQLiteType(obj))]
    ELSE call("extractEntityFieldsFrom", <<obj, 1, ct, rnd>>)

\* resolveColumnType preferring INTEGER to REAL
resolveColumnTypeNarrowing(types) ==
    IF Cardinality(types) = 1 THEN CHOOSE x \in types : TRUE
    ELSE IF "TEXT" \in types THEN "TEXT" ELSE IF "INTEGER" \in types THEN "INTEGER" ELSE "REAL"

resolveColumnType(types) ==
    IF Cardinality(types) = 1 THEN CHOOSE x \in types : TRUE
    ELSE IF "TEXT" \in types THEN "TEXT" ELSE IF "REAL" \in types THEN "REAL" ELSE "INTEGER"

resolveColumnTypes(columnTypes) ==
    [i \in 1..Len(columnTypes) |-> KV(columnTypes[i].k, resolveColumnType(columnTypes[i].v))]

ensureIdColumn(columns) ==
    IF ~MapHas(columns, "id") THEN MapSet(columns, "id", "INTEGER PRIMARY KEY AUTOINCREMENT")
    ELSE IF MapGet(columns, "id") = "INTEGER" THEN MapSet(columns, "id", "INTEGER PRIMARY KEY")
    ELSE columns

\* UTF-16 code unit order of the characters a sanitised table name can hold, as the
\* default comparator of Array.prototype.sort compares them
AsciiOrder == "0123456789ABCDEFGHIJKLMNOPQRSTUVWXYZ_abcdefghijklmnopqrstuvwxyz"
codeOf(c) == CHOOSE i \in 1..Len(AsciiOrder) : Ch(AsciiOrder, i) = c
RECURSIVE strLess(_, _)
strLess(a, b) ==
    IF b = "" THEN FALSE
    ELSE IF a = "" THEN TRUE
    ELSE IF Head(a) = Head(b) THEN strLess(Tail(a), Tail(b))
    ELSE codeOf(Head(a)) < codeOf(Head(b))

\* [a, b].sort().join('_')
\* the junction name without the sort
sortJoinAsSeen(a, b) == a \o "_" \o b
sortJoin(a, b) == IF strLess(b, a) THEN b \o "_" \o a ELSE a \o "_" \o b

junctionColumns(fromTable, toTable) ==
    MapSet(MapSet(MapSet(<<>>, "id", "INTEGER PRIMARY KEY AUTOINCREMENT"),
                  fromTable \o "_id", "INTEGER"),
           toTable \o "_id", "INTEGER")

RECURSIVE createJunctionTableSchemasFrom(_, _, _, _, _)
createJunctionTableSchemasFrom(rels, i, j, junctionTables, schemas) ==
    IF i > Len(rels) THEN schemas
    ELSE IF j > Len(rels[i].v)
         THEN call("createJunctionTableSchemasFrom", <<rels, i + 1, 1, junctionTables, schemas>>)
    ELSE LET fromTable == rels[i].k
             toTable == rels[i].v[j]
             junctionName == sortJoin(fromTable, toTable)
         IN  IF junctionName \notin junctionTables
             THEN call("createJunctionTableSchemasFrom", <<rels, i, j + 1, junctionTables \cup {junctionName},
                      MapSet(schemas, junctionName, call("junctionColumns", <<fromTable, toTable>>))>>)
             ELSE call("createJunctionTableSchemasFrom", <<rels, i, j + 1, junctionTables, schemas>>)

createJunctionTableSchemas(rels, schemas) ==
    call("createJunctionTableSchemasFrom", <<rels, 1, 1, {}, schemas>>)

RECURSIVE foldEntityFields(_, _, _, _)
foldEntityFields(entities, i, ct, rnd) ==
    IF i > Len(entities) THEN ct
    ELSE foldEntityFields(entities, i + 1, call("extractEntityFields", <<entities[i], ct, rnd>>), rnd)

\* sk = [schemas, k]; a schema is the ordered map column -> declared type
RECURSIVE createEntitySchemasFrom(_, _, _, _)
createEntitySchemasFrom(ents, i, sk, rnd) ==
    IF i > Len(ents) THEN sk
    ELSE IF Len(ents[i].v) = 0 THEN call("createEntitySchemasFrom", <<ents, i + 1, sk, rnd>>)
    ELSE LET ct == foldEntityFields(ents[i].v, 1, [cols |-> <<>>, k |-> sk.k], rnd)
             columns == call("ensureIdColumn", <<resolveColumnTypes(ct.cols)>>)
         IN  call("createEntitySchemasFrom", <<ents, i + 1,
                 [schemas |-> MapSet(sk.schemas, ents[i].k, columns), k |-> ct.k], rnd>>)

createSchemasFromEntities(st, rnd) ==
    LET sk == call("createEntitySchemasFrom", <<st.ents, 1, [schemas |-> <<>>, k |-> st.k], rnd>>)
    IN  [schemas |-> createJunctionTableSchemas(st.rels, sk.schemas), k |-> sk.k]

RECURSIVE extractSimpleFieldsFrom(_, _, _, _)
extractSimpleFieldsFrom(obj, i, ct, rnd) ==
    IF i > Len(obj.o) THEN ct
    ELSE LET key == obj.o[i].k
             value == obj.o[i].v
             columnName == call("sanitizeColumnName", <<key, draw(rnd, ct.k)>>)
             k1 == ct.k + columnNameDraws(key)
         IN  call("extractSimpleFieldsFrom", <<obj, i + 1,
                 IF value.t = "null" \/ ~TypeofObject(value)
                 THEN [cols |-> addColumnType(ct.cols, columnName, getSQLiteType(value)), k |-> k1]
                 ELSE [cols |-> addColumnType(ct.cols, columnName \o "_json", "TEXT"), k |-> k1],
                 rnd>>)

extractSimpleFields(obj, ct, rnd) ==
    IF obj.t = "null" \/ ~TypeofObject(obj)
    THEN [ct EXCEPT !.cols = addColumnType(ct.cols, "value", getSQLiteType(obj))]
    ELSE IF IsArr(obj) THEN [ct EXCEPT !.cols = addColumnType(ct.cols, "array_data_json", "TEXT")]
    ELSE call("extractSimpleFieldsFrom", <<obj, 1, ct, rnd>>)

RECURSIVE foldSimpleFields(_, _, _, _)
foldSimpleFields(items, i, ct, rnd) ==
    IF i > Len(items) THEN ct
    ELSE foldSimpleFields(items, i + 1, call("extractSimpleFields", <<items[i], ct, rnd>>), rnd)

createSchemaFromPrimitiveOrSimpleArray(data, k, rnd) ==
    LET ct == IF IsArr(data) THEN foldSimpleFields(data.a, 1, [cols |-> <<>>, k |-> k], rnd)
              ELSE call("extractSimpleFields", <<data, [cols |-> <<>>, k |-> k], rnd>>)
        c0 == resolveColumnTypes(ct.cols)
        c1 == IF ~MapHas(c0, "id") /\ ~MapHas(c0, "value") /\ Len(c0) = 1
              THEN <<KV("value", c0[1].v)>> ELSE c0
        c2 == IF Len(c1) = 0 /\ data.t = "null" THEN <<KV("value", "TEXT")>> ELSE c1
    IN  [columns |-> c2, k |-> ct.k]

createSchemaFromObject(obj, k, rnd) ==
    LET ct == call("extractSimpleFields", <<obj, [cols |-> <<>>, k |-> k], rnd>>)
    IN  [columns |-> resolveColumnTypes(ct.cols), k |-> ct.k]

\* returns [schemas, k]: the table schemas in Object.entries order and the draws consumed
inferFromJSON(data, rnd) ==
    LET st == call("discoverEntities", <<data, <<>>, "", [ents |-> <<>>, rels |-> <<>>, k |-> 0], rnd>>)
    IN  IF Len(st.ents) > 0 THEN createSchemasFromEntities(st, rnd)
        ELSE IF ~TypeofObject(data) \/ data.t = "null" \/ IsArr(data)
             THEN LET tableName == IF IsArr(data) THEN "array_data" ELSE "scalar_data"
                      r == call("createSchemaFromPrimitiveOrSimpleArray", <<data, st.k, rnd>>)
                  IN  [schemas |-> <<KV(tableName, r.columns)>>, k |-> r.k]
        ELSE LET r == createSchemaFromObject(data, st.k, rnd)
             IN  [schemas |-> <<KV("root_object", r.columns)>>, k |-> r.k]

(***************************************************************************)
(* The compartment's SQLite storage (ctx.storage.sql).  A table keeps its  *)
(* column definitions in declaration order and its rows in rowid order; a  *)
(* statement is executed from its parsed form.  exec returns the storage,  *)
(* the result rows and err ("" when the statement succeeded).              *)
(***************************************************************************)
\* words the SQLite grammar never accepts as a bare table or column name
sqliteKeywords ==
    {"add", "all", "alter", "and", "as", "autoincrement", "between", "case", "check", "collate",
     "commit", "constraint", "create", "default", "deferrable", "delete", "distinct", "drop",
     "else", "escape", "except", "exists", "foreign", "from", "group", "having", "in", "index",
     "insert", "intersect", "into", "is", "isnull", "join", "limit", "not", "nothing", "notnull",
     "null", "on", "or", "order", "primary", "references", "returning", "select", "set", "table",
     "then", "to", "transaction", "union", "unique", "update", "using", "values", "when", "where"}

emptyStorage == [tables |-> <<>>, lastId |-> 0, log |-> <<>>]

sqlOk(db, rows) == [db |-> db, rows |-> rows, err |-> "", columnNames |-> <<>>]
sqlErr(db, msg) == [db |-> db, rows |-> <<>>, err |-> msg, columnNames |-> <<>>]
logged(db, op, table) == [db EXCEPT !.log = Append(@, [op |-> op, table |-> table])]

\* a name resolves to the temporary object of that name before the permanent one
hasTable(db, name) == \E i \in 1..Len(db.tables) : db.tables[i].name = name
tableIndex(db, name) ==
    IF \E i \in 1..Len(db.tables) : db.tables[i].name = name /\ db.tables[i].kind = "temp"
    THEN CHOOSE i \in 1..Len(db.tables) : db.tables[i].name = name /\ db.tables[i].kind = "temp"
    ELSE CHOOSE i \in 1..Len(db.tables) : db.tables[i].name = name
tableOf(db, name) == db.tables[tableIndex(db, name)]
hasObject(db, name, kinds) ==
    \E i \in 1..Len(db.tables) : db.tables[i].name = name /\ db.tables[i].kind \in kinds

isRowidAlias(type) == startsWith(type, "INTEGER PRIMARY KEY")
isNotNull(type) == includes(type, "NOT NULL")
isTextKey(type) == startsWith(type, "TEXT PRIMARY KEY")
affinityOf(type) ==
    IF includes(type, "INT") THEN "INTEGER"
    ELSE IF includes(type, "TEXT") THEN "TEXT"
    ELSE IF includes(type, "REAL") THEN "REAL"
    ELSE "NUMERIC"
defaultOf(type) ==
    IF includes(type, "DEFAULT 0") THEN JInt(0)
    ELSE IF includes(type, "DEFAULT CURRENT_TIMESTAMP") THEN JStr("CURRENT_TIMESTAMP")
    ELSE JNull

isDigits(s) == s # "" /\ \A i \in 1..Len(s) : Ch(s, i) \in DigitChars
RECURSIVE digitsToNat(_)
digitsToNat(s) ==
    IF s = "" THEN 0
    ELSE digitsToNat(SubSeq(s, 1, Len(s) - 1)) * 10
         + ((CHOOSE i \in 1..10 : Ch(DigitStr, i) = Ch(s, Len(s))) - 1)
\* Number.prototype.toString of a finite number
numberToString(v) ==
    IF v.f = 0 THEN ToString(v.n)
    ELSE (IF v.n < 0 THEN "-" ELSE "") \o ToString(IF v.n < 0 THEN -v.n ELSE v.n)
         \o "." \o ToString(v.f)

\* column affinity applied to a bound value
applyAffinity(v, type) ==
    LET a == affinityOf(type)
    IN  IF a = "TEXT" /\ v.t = "num" THEN JStr(numberToString(v))
        ELSE IF a \in {"INTEGER", "REAL", "NUMERIC"} /\ v.t = "str" /\ isDigits(v.s)
             THEN JInt(digitsToNat(v.s))
        ELSE v

\* a JavaScript value the SQL API accepts as a binding
bindable(v) == v.t \in {"null", "num", "str"}

maxRowid(rows) ==
    IF rows = <<>> THEN 0
    ELSE CHOOSE m \in {rows[i].rowid : i \in 1..Len(rows)} :
             \A i \in 1..Len(rows) : rows[i].rowid <= m

colIndex(cols, name) == CHOOSE i \in 1..Len(cols) : cols[i].k = name
hasCol(cols, name) == \E i \in 1..Len(cols) : cols[i].k = name

\* CREATE TABLE IF NOT EXISTS name (cols..., UNIQUE(uniq)); kind is "table" or "temp"
sqlCreateTable(db, kind, name, cols, uniq) ==
    LET d == logged(db, "create", name)
    IN  IF name \in sqliteKeywords \/ \E i \in 1..Len(cols) : cols[i].k \in sqliteKeywords
        THEN sqlErr(d, "near \"" \o name \o "\": syntax error")
        ELSE IF hasObject(db, name, {kind, "view"}) THEN sqlOk(d, <<>>)
        ELSE IF \E i, j \in 1..Len(cols) : i # j /\ cols[i].k = cols[j].k
             THEN sqlErr(d, "duplicate column name")
        ELSE sqlOk([d EXCEPT !.tables = Append(@, [name |-> name, kind |-> kind, cols |-> cols,
                                                    uniq |-> uniq, rows |-> <<>>, src |-> ""])],
                   <<>>)

\* the stored row of INSERT INTO t (cols) VALUES (vals)
newRow(t, cols, vals) ==
    LET cell(i) ==
            IF SeqHas(cols, t.cols[i].k)
            THEN call("applyAffinity", <<vals[CHOOSE j \in 1..Len(cols) : cols[j] = t.cols[i].k],
                               t.cols[i].v>>)
            ELSE defaultOf(t.cols[i].v)
        v0 == [i \in 1..Len(t.cols) |-> cell(i)]
        hasAlias == \E i \in 1..Len(t.cols) : isRowidAlias(t.cols[i].v)
        alias == CHOOSE i \in 1..Len(t.cols) : isRowidAlias(t.cols[i].v)
        rowid == IF hasAlias /\ v0[alias].t = "num" THEN v0[alias].n ELSE maxRowid(t.rows) + 1
    IN  [rowid |-> rowid,
         v |-> [i \in 1..Len(t.cols) |->
                   IF hasAlias /\ i = alias /\ v0[i].t = "null" THEN JInt(rowid) ELSE v0[i]]]

rowConflicts(t, old, new) ==
    \/ (\E i \in 1..Len(t.cols) : isRowidAlias(t.cols[i].v)) /\ old.rowid = new.rowid
    \/ \E i \in 1..Len(t.cols) :
          isTextKey(t.cols[i].v) /\ new.v[i].t # "null" /\ old.v[i] = new.v[i]
    \/ \E u \in t.uniq :
          \A c \in u : new.v[colIndex(t.cols, c)].t # "null"
                       /\ old.v[colIndex(t.cols, c)] = new.v[colIndex(t.cols, c)]

\* INSERT [OR IGNORE | OR REPLACE] INTO name (cols) VALUES (vals); mode is "abort", "ignore"
\* or "replace"
sqlInsert(db, mode, name, cols, vals) ==
    LET d == logged(db, "insert", name)
    IN  IF name \in sqliteKeywords \/ cols = <<>> \/ \E i \in 1..Len(cols) : cols[i] \in sqliteKeywords
        THEN sqlErr(d, "near \"" \o name \o "\": syntax error")
        ELSE IF \E i \in 1..Len(vals) : ~bindable(vals[i])
        THEN sqlErr(d, "unsupported binding")
        ELSE IF ~hasObject(db, name, {"table", "temp"}) THEN sqlErr(d, "no such table: " \o name)
        ELSE
          LET ti == tableIndex(db, name)
              t == db.tables[ti]
          IN  IF \E i \in 1..Len(cols) : ~hasCol(t.cols, cols[i])
              THEN sqlErr(d, "table " \o name \o " has no column")
              ELSE
                LET row == call("newRow", <<t, cols, vals>>)
                    mismatch == \E i \in 1..Len(t.cols) :
                                    isRowidAlias(t.cols[i].v)
                                    /\ (row.v[i].t = "str" \/ (row.v[i].t = "num" /\ row.v[i].f # 0))
                    nulls == \E i \in 1..Len(t.cols) : isNotNull(t.cols[i].v) /\ row.v[i].t = "null"
                    clash == {i \in 1..Len(t.rows) : call("rowConflicts", <<t, t.rows[i], row>>)}
                    kept == SelectSeq(t.rows, LAMBDA r : ~call("rowConflicts", <<t, r, row>>))
                    put(rows) == [d EXCEPT !.tables[ti].rows = Append(rows, row),
                                           !.lastId = row.rowid]
                IN  IF mismatch THEN sqlErr(d, "datatype mismatch")
                    ELSE IF nulls
                         THEN (IF mode = "ignore" THEN sqlOk(d, <<>>)
                               ELSE sqlErr(d, "NOT NULL constraint failed"))
                    ELSE IF clash = {} THEN sqlOk(put(t.rows), <<>>)
                    ELSE IF mode = "ignore" THEN sqlOk(d, <<>>)
                    ELSE IF mode = "replace" THEN sqlOk(put(kept), <<>>)
                    ELSE sqlErr(d, "UNIQUE constraint failed")

\* the rows a FROM clause reads: a view reads the object it was defined over
readable(db, name) ==
    /\ hasTable(db, name)
    /\ tableOf(db, name).kind = "view" =>
          /\ hasObject(db, tableOf(db, name).src, {"table", "temp"})
sourceOf(db, name) ==
    IF tableOf(db, name).kind = "view" THEN tableOf(db, tableOf(db, name).src)
    ELSE tableOf(db, name)

rowObject(t, cols, row) ==
    [i \in 1..Len(cols) |-> KV(cols[i], row.v[colIndex(t.cols, cols[i])])]

\* SELECT cols FROM name [LIMIT limit]; cols = <<>> is *, limit = 0 is no limit
sqlSelect(db, name, cols, limit) ==
    LET d == logged(db, "select", name)
    IN  IF name \in sqliteKeywords THEN sqlErr(d, "near \"" \o name \o "\": syntax error")
        ELSE IF ~call("readable", <<db, name>>) THEN sqlErr(d, "no such table: " \o name)
        ELSE LET t == call("sourceOf", <<db, name>>)
                 out == IF cols = <<>> THEN MapKeys(t.cols) ELSE cols
                 n == IF limit > 0 /\ limit < Len(t.rows) THEN limit ELSE Len(t.rows)
             IN  IF \E i \in 1..Len(out) : ~hasCol(t.cols, out[i])
                 THEN sqlErr(d, "no such column")
                 ELSE [sqlOk(d, [i \in 1..n |-> rowObject(t, out, t.rows[i])])
                          EXCEPT !.columnNames = out]

\* SELECT * FROM name WHERE col = val [ORDER BY col2 ASC]
RECURSIVE sortRows(_, _)
sortRows(rows, c) ==
    IF rows = <<>> THEN <<>>
    ELSE LET m == CHOOSE i \in 1..Len(rows) :
                      \A j \in 1..Len(rows) :
                          rows[i].v[c].n < rows[j].v[c].n
                          \/ (rows[i].v[c].n = rows[j].v[c].n /\ i <= j)
         IN  <<rows[m]>> \o sortRows([i \in 1..(Len(rows) - 1) |->
                                         IF i < m THEN rows[i] ELSE rows[i + 1]], c)

sqlSelectWhere(db, name, col, val, orderBy) ==
    LET d == logged(db, "select", name)
    IN  IF ~call("readable", <<db, name>>) THEN sqlErr(d, "no such table: " \o name)
        ELSE LET t == call("sourceOf", <<db, name>>)
             IN  IF ~hasCol(t.cols, col) \/ (orderBy # "" /\ ~hasCol(t.cols, orderBy))
                 THEN sqlErr(d, "no such column")
                 ELSE LET hit == SelectSeq(t.rows, LAMBDA r : r.v[colIndex(t.cols, col)] = val)
                          ord == IF orderBy = "" THEN hit
                                 ELSE sortRows(hit, colIndex(t.cols, orderBy))
                      IN  sqlOk(d, [i \in 1..Len(ord) |-> rowObject(t, MapKeys(t.cols), ord[i])])

\* SELECT COUNT(*) as count FROM name
sqlCount(db, name) ==
    LET d == logged(db, "select", name)
    IN  IF name \in sqliteKeywords THEN sqlErr(d, "near \"" \o name \o "\": syntax error")
        ELSE IF ~call("readable", <<db, name>>) THEN sqlErr(d, "no such table: " \o name)
        ELSE sqlOk(d, << <<KV("count", JInt(Len(call("sourceOf", <<db, name>>).rows)))>> >>)

\* UPDATE name SET col = val
sqlUpdate(db, name, col, val) ==
    LET d == logged(db, "update", name)
    IN  IF ~hasObject(db, name, {"table", "temp"}) THEN sqlErr(d, "no such table: " \o name)
        ELSE LET ti == tableIndex(db, name)
                 t == db.tables[ti]
             IN  IF ~hasCol(t.cols, col) THEN sqlErr(d, "no such column")
                 ELSE LET c == colIndex(t.cols, col)
                          w == call("applyAffinity", <<val, t.cols[c].v>>)
                          rows == [i \in 1..Len(t.rows) |->
                                     [rowid |-> IF isRowidAlias(t.cols[c].v) THEN w.n
                                                ELSE t.rows[i].rowid,
                                      v |-> [t.rows[i].v EXCEPT ![c] = w]]]
                      IN  IF \E i, j \in 1..Len(rows) : i # j /\ call("rowConflicts", <<t, rows[i], rows[j]>>)
                          THEN sqlErr(d, "UNIQUE constraint failed")
                          ELSE IF isNotNull(t.cols[c].v) /\ w.t = "null"
                               THEN sqlErr(d, "NOT NULL constraint failed")
                          ELSE sqlOk([d EXCEPT !.tables[ti].rows = rows], <<>>)

removeAt(q, i) == [j \in 1..(Len(q) - 1) |-> IF j < i THEN q[j] ELSE q[j + 1]]

\* DROP TABLE name / DROP VIEW name
sqlDrop(db, what, name) ==
    LET d == logged(db, "drop", name)
        kinds == IF what = "view" THEN {"view"} ELSE {"table", "temp"}
    IN  IF ~hasObject(db, name, kinds) THEN sqlErr(d, "no such " \o what \o ": " \o name)
        ELSE sqlOk([d EXCEPT !.tables = removeAt(@, tableIndex(db, name))], <<>>)

\* CREATE [TEMP] VIEW name AS SELECT * FROM src
sqlCreateView(db, name, src) ==
    LET d == logged(db, "create", name)
    IN  IF hasTable(db, name) THEN sqlErr(d, "table " \o name \o " already exists")
        ELSE sqlOk([d EXCEPT !.tables = Append(@, [name |-> name, kind |-> "view", cols |-> <<>>,
                                                    uniq |-> {}, rows |-> <<>>, src |-> src])],
                   <<>>)

\* CREATE TEMP TABLE name AS SELECT * FROM src
sqlCreateTempAs(db, name, src) ==
    LET d == logged(db, "create", name)
    IN  IF hasObject(db, name, {"temp"}) THEN sqlErr(d, "table " \o name \o " already exists")
        ELSE IF ~call("readable", <<db, src>>) THEN sqlErr(d, "no such table: " \o src)
        ELSE LET t == call("sourceOf", <<db, src>>)
             IN  sqlOk([d EXCEPT !.tables =
                           Append(@, [name |-> name, kind |-> "temp",
                                      cols |-> [i \in 1..Len(t.cols) |->
                                                   KV(t.cols[i].k, affinityOf(t.cols[i].v))],
                                      uniq |-> {}, rows |-> t.rows, src |-> ""])], <<>>)

\* sql.exec of a statement given by its parsed form
sqlExec(db, ast) ==
    CASE ast.op = "select" -> call("sqlSelect", <<db, ast.table, ast.cols, 0>>)
      [] ast.op = "count" -> call("sqlCount", <<db, ast.table>>)
      [] ast.op = "insert" -> call("sqlInsert", <<db, ast.mode, ast.table, ast.cols, ast.vals>>)
      [] ast.op = "update" -> call("sqlUpdate", <<db, ast.table, ast.col, ast.val>>)
      [] ast.op = "dropTable" -> call("sqlDrop", <<db, "table", ast.table>>)
      [] ast.op = "dropView" -> call("sqlDrop", <<db, "view", ast.table>>)
      [] ast.op = "createView" -> sqlCreateView(db, ast.table, ast.src)
      [] ast.op = "createTempAs" -> call("sqlCreateTempAs", <<db, ast.table, ast.src>>)
      [] ast.op = "createTable" -> call("sqlCreateTable", <<db, "table", ast.table, ast.cols, {}>>)
      [] OTHER -> sqlErr(logged(db, ast.op, ""), "near \"" \o ast.op \o "\": syntax error")

(***************************************************************************)
(* JSON.stringify                                                          *)
(***************************************************************************)
RECURSIVE escapeJsonOf(_)
escapeJsonOf(s) ==
    IF Len(s) = 0 THEN ""
    ELSE IF Len(s) = 1
         THEN (IF s = "\"" THEN "\\\"" ELSE IF s = "\\" THEN "\\\\" ELSE s)
    ELSE escapeJsonOf(SubSeq(s, 1, Len(s) \div 2))
         \o escapeJsonOf(SubSeq(s, Len(s) \div 2 + 1, Len(s)))

\* the long texts of the payloads below, escaped once and looked up afterwards
RECURSIVE repeatTo(_, _)
repeatTo(seed, n) ==
    IF Len(seed) >= n THEN SubSeq(seed, 1, n) ELSE repeatTo(seed \o seed, n)
LongTextLen == 40 * 1024
LongText == repeatTo("ACGT", LongTextLen)
LongProse == repeatTo("chromosome 17 ", LongTextLen)
\* ["<text>"] is four characters longer than the text: the one-element array of AtThreshold
\* serialises to exactly 32 KiB, that of OverThreshold to one character more
AtThresholdLen == 32 * 1024 - 4
AtThreshold == repeatTo("ACGT", AtThresholdLen)
OverThreshold == repeatTo("ACGT", AtThresholdLen + 1)
\* a text that reads as a chunk reference
ReferenceLike == "__CHUNKED__:" \o LongText
escapedLongTexts ==
    [s \in {LongText, LongProse, AtThreshold, OverThreshold, ReferenceLike} |-> escapeJsonOf(s)]

escapeJson(s) == IF s \in DOMAIN escapedLongTexts THEN escapedLongTexts[s] ELSE escapeJsonOf(s)

quoteJson(s) == "\"" \o escapeJson(s) \o "\""

RECURSIVE Stringify(_)
RECURSIVE StringifyItems(_, _)
RECURSIVE StringifyEntries(_, _)
Stringify(v) ==
    CASE v.t = "null" -> "null"
      [] v.t = "bool" -> (IF v.b THEN "true" ELSE "false")
      [] v.t = "num" -> numberToString(v)
      [] v.t = "str" -> quoteJson(v.s)
      [] v.t = "arr" -> "[" \o StringifyItems(v.a, 1) \o "]"
      [] v.t = "obj" -> "{" \o StringifyEntries(SelectSeq(v.o, LAMBDA e : e.v.t # "undef"), 1) \o "}"
StringifyItems(a, i) ==
    IF i > Len(a) THEN ""
    ELSE (IF i > 1 THEN "," ELSE "")
         \o (IF a[i].t = "undef" THEN "null" ELSE call("Stringify", <<a[i]>>)) \o StringifyItems(a, i + 1)
StringifyEntries(o, i) ==
    IF i > Len(o) THEN ""
    ELSE (IF i > 1 THEN "," ELSE "") \o quoteJson(o[i].k) \o ":" \o call("Stringify", <<o[i].v>>)
         \o StringifyEntries(o, i + 1)

(***************************************************************************)
(* ChunkingEngine                                                          *)
(***************************************************************************)
CHUNK_SIZE_THRESHOLD == 32 * 1024
CHUNK_SIZE == 16 * 1024

\* shouldChunk with the threshold itself counted as too long
shouldChunkAtThreshold(content) == Len(content) >= CHUNK_SIZE_THRESHOLD
shouldChunk(content) == Len(content) > CHUNK_SIZE_THRESHOLD
shouldCompress(content) == Len(content) > 8192

generateContentId(uuid) == "chunk_" \o uuid

\* The gzip stream followed by base64, as a lossless code with the same interface: a text
\* that repeats its first p <= GzipWindow characters is coded by its length and that prefix,
\* any other text is stored after a header (and comes out longer than it went in).
GzipWindow == 8
isPeriodic(s, p) == p < Len(s) /\ SubSeq(s, 1, Len(s) - p) = SubSeq(s, p + 1, Len(s))
gzipBase64(s) ==
    IF \E p \in 1..GzipWindow : isPeriodic(s, p)
    THEN LET p == CHOOSE q \in 1..GzipWindow :
                      isPeriodic(s, q) /\ \A q2 \in 1..(q - 1) : ~isPeriodic(s, q2)
         IN  "H4sI" \o ToString(Len(s)) \o ":" \o SubSeq(s, 1, p)
    ELSE "H4sI0:" \o s

RECURSIVE digitPrefix(_, _)
digitPrefix(s, i) ==
    IF i <= Len(s) /\ Ch(s, i) \in DigitChars THEN digitPrefix(s, i + 1) ELSE i - 1

\* compress: ok = FALSE when the stream or btoa throws (platform is the outcome drawn)
compress(content, platform) ==
    IF platform = "gzip" THEN [ok |-> TRUE, s |-> gzipBase64(content)]
    ELSE [ok |-> FALSE, s |-> ""]

decompress(compressedContent) ==
    LET body == SubSeq(compressedContent, 5, Len(compressedContent))
        d == digitPrefix(body, 1)
        n == digitsToNat(SubSeq(body, 1, d))
        rest == SubSeq(body, d + 2, Len(body))
    IN  IF ~startsWith(compressedContent, "H4sI") \/ d = 0 \/ Ch(body, d + 1) # ":"
        THEN [ok |-> FALSE, s |-> ""]
        ELSE IF n = 0 THEN [ok |-> TRUE, s |-> rest]
        ELSE IF rest = "" THEN [ok |-> FALSE, s |-> ""]
        ELSE [ok |-> TRUE, s |-> repeatTo(rest, n)]

RECURSIVE splitFrom(_, _)
splitFrom(content, i) ==
    IF i >= Len(content) THEN <<>>
    ELSE LET j == IF i + CHUNK_SIZE < Len(content) THEN i + CHUNK_SIZE ELSE Len(content)
         IN  <<SubSeq(content, i + 1, j)>> \o splitFrom(content, i + CHUNK_SIZE)

splitIntoChunks(content) == splitFrom(content, 0)

contentChunksColumns ==
    <<KV("id", "INTEGER PRIMARY KEY AUTOINCREMENT"), KV("content_id", "TEXT NOT NULL"),
      KV("chunk_index", "INTEGER NOT NULL"), KV("chunk_data", "TEXT NOT NULL"),
      KV("chunk_size", "INTEGER NOT NULL"), KV("created_at", "TEXT DEFAULT CURRENT_TIMESTAMP")>>
chunkMetadataColumns ==
    <<KV("content_id", "TEXT PRIMARY KEY"), KV("total_chunks", "INTEGER NOT NULL"),
      KV("original_size", "INTEGER NOT NULL"), KV("content_type", "TEXT NOT NULL"),
      KV("compressed", "INTEGER DEFAULT 0"), KV("encoding", "TEXT"),
      KV("created_at", "TEXT DEFAULT CURRENT_TIMESTAMP")>>

\* the two CREATE INDEX IF NOT EXISTS statements add no table and no row
ensureChunksTable(db) ==
    LET r1 == call("sqlCreateTable", <<db, "table", "content_chunks", contentChunksColumns,
                             {{"content_id", "chunk_index"}}>>)
        r2 == call("sqlCreateTable", <<r1.db, "table", "chunk_metadata", chunkMetadataColumns, {}>>)
    IN  IF r1.err # "" THEN r1 ELSE r2

insertChunk(db, chunk) ==
    call("sqlInsert", <<db, "abort", "content_chunks",
              <<"content_id", "chunk_index", "chunk_data", "chunk_size">>,
              <<JStr(chunk.content_id), JInt(chunk.chunk_index), JStr(chunk.chunk_data),
                JInt(chunk.chunk_size)>>>>)

storeMetadata(db, metadata) ==
    call("sqlInsert", <<db, "abort", "chunk_metadata",
              <<"content_id", "total_chunks", "original_size", "content_type", "compressed",
                "encoding">>,
              <<JStr(metadata.contentId), JInt(metadata.totalChunks), JInt(metadata.originalSize),
                JStr(metadata.contentType), JInt(IF metadata.compressed THEN 1 ELSE 0),
                IF metadata.encoding = "" THEN JNull ELSE JStr(metadata.encoding)>>>>)

RECURSIVE insertChunksFrom(_, _, _, _)
insertChunksFrom(r, contentId, chunks, i) ==
    IF i > Len(chunks) \/ r.err # "" THEN r
    ELSE insertChunksFrom(insertChunk(r.db, [content_id |-> contentId, chunk_index |-> i - 1,
                                             chunk_data |-> chunks[i],
                                             chunk_size |-> Len(chunks[i])]),
                          contentId, chunks, i + 1)

\* returns [db, err, metadata]; err # "" is the exception that leaves the method
storeChunkedContent(db, content, contentType, uuid, platform) ==
    LET contentId == generateContentId(uuid)
        c == IF shouldCompress(content) THEN call("compress", <<content, platform>>)
             ELSE [ok |-> FALSE, s |-> ""]
        compressed == c.ok
        processedContent == IF c.ok THEN c.s ELSE content
        r0 == call("ensureChunksTable", <<db>>)
        chunks == splitIntoChunks(processedContent)
        r1 == insertChunksFrom(r0, contentId, chunks, 1)
        metadata == [contentId |-> contentId, totalChunks |-> Len(chunks),
                     originalSize |-> Len(content), contentType |-> contentType,
                     compressed |-> compressed, encoding |-> IF compressed THEN "gzip" ELSE ""]
        r2 == IF r1.err # "" THEN r1 ELSE storeMetadata(r1.db, metadata)
    IN  [db |-> r2.db, err |-> r2.err, metadata |-> metadata]

\* metadata read by getMetadata: one() raises unless exactly one row matches
getMetadata(db, contentId) ==
    LET r == call("sqlSelectWhere", <<db, "chunk_metadata", "content_id", JStr(contentId), "">>)
    IN  IF r.err # "" \/ Len(r.rows) # 1 THEN [db |-> r.db, ok |-> FALSE, metadata |-> <<>>]
        ELSE [db |-> r.db, ok |-> TRUE,
              metadata |-> [contentId |-> MapGet(r.rows[1], "content_id").s,
                            totalChunks |-> MapGet(r.rows[1], "total_chunks").n,
                            originalSize |-> MapGet(r.rows[1], "original_size").n,
                            contentType |-> MapGet(r.rows[1], "content_type").s,
                            compressed |-> Truthy(MapGet(r.rows[1], "compressed"))]]

getChunksReversed(db, contentId) ==
    LET r == call("sqlSelectWhere", <<db, "content_chunks", "content_id", JStr(contentId), "">>)
    IN  [db |-> r.db, ok |-> r.err = "",
         chunks |-> [i \in 1..Len(r.rows) |->
                        MapGet(r.rows[Len(r.rows) + 1 - i], "chunk_data").s]]

getChunks(db, contentId) ==
    LET r == call("sqlSelectWhere", <<db, "content_chunks", "content_id", JStr(contentId), "chunk_index">>)
    IN  [db |-> r.db, ok |-> r.err = "",
         chunks |-> [i \in 1..Len(r.rows) |-> MapGet(r.rows[i], "chunk_data").s]]

RECURSIVE joinAll(_)
joinAll(chunks) == IF chunks = <<>> THEN "" ELSE Head(chunks) \o joinAll(Tail(chunks))

\* returns [db, found, content]; found = FALSE is the null result
retrieveChunkedContent(db, contentId) ==
    LET m == call("getMetadata", <<db, contentId>>)
        g == getChunks(m.db, contentId)
        reassembled == joinAll(g.chunks)
        missing == [db |-> g.db, found |-> FALSE, content |-> ""]
    IN  IF ~m.ok THEN [db |-> m.db, found |-> FALSE, content |-> ""]
        ELSE IF ~g.ok \/ Len(g.chunks) # m.metadata.totalChunks THEN missing
        ELSE IF m.metadata.compressed
             THEN (IF call("decompress", <<reassembled>>).ok
                   THEN [db |-> g.db, found |-> TRUE, content |-> call("decompress", <<reassembled>>).s]
                   ELSE missing)
        ELSE [db |-> g.db, found |-> TRUE, content |-> reassembled]

createContentReference(metadata) == "__CHUNKED__:" \o metadata.contentId
isContentReference(value) == value.t = "str" /\ startsWith(value.s, "__CHUNKED__:")
\* String.prototype.replace with a string pattern replaces the first occurrence
extractContentId(reference) ==
    IF startsWith(reference, "__CHUNKED__:") THEN SubSeq(reference, 13, Len(reference))
    ELSE reference

\* returns [db, err, s, stored]; stored = 1 when a content id was consumed
smartJsonStringify(db, obj, uuid, platform) ==
    LET jsonString == call("Stringify", <<obj>>)
        r == call("storeChunkedContent", <<db, jsonString, "json", uuid, platform>>)
    IN  IF ~shouldChunk(jsonString) THEN [db |-> db, err |-> "", s |-> jsonString, stored |-> 0]
        ELSE [db |-> r.db, err |-> r.err, s |-> createContentReference(r.metadata), stored |-> 1]

(***************************************************************************)
(* DataInsertionEngine.  st is the engine's state during one insertData:   *)
(* db, err (the exception in flight, "" for none), k and ku (calls of      *)
(* Math.random and crypto.randomUUID so far), proc (processedEntities),    *)
(* rels (relationshipData) and tokens (chunk references handed out).       *)
(* E = [rnd, uuid, platform] is what the runtime supplies.                 *)
(***************************************************************************)
entriesOf(v) ==
    IF v.t = "obj" THEN v.o
    ELSE IF v.t = "arr" THEN [i \in 1..Len(v.a) |-> KV(ToString(i - 1), v.a[i])]
    ELSE <<>>
propOf(v, key) ==
    LET e == entriesOf(v)
    IN  IF \E i \in 1..Len(e) : e[i].k = key THEN e[CHOOSE i \in 1..Len(e) : e[i].k = key].v
        ELSE JUndef
boolToInt(v) == IF v.t = "bool" THEN JInt(IF v.b THEN 1 ELSE 0) ELSE v
orNull(v) == IF Truthy(v) THEN v ELSE JNull

RECURSIVE findKeyFrom(_, _, _, _, _)
findKeyFrom(e, i, sanitizedKey, rnd, k) ==
    IF i > Len(e) THEN [key |-> "", k |-> k]
    ELSE IF call("sanitizeColumnName", <<e[i].k, draw(rnd, k)>>) = sanitizedKey
         THEN [key |-> e[i].k, k |-> k + columnNameDraws(e[i].k)]
    ELSE findKeyFrom(e, i + 1, sanitizedKey, rnd, k + columnNameDraws(e[i].k))

\* returns [key, k]; key = "" is null
findOriginalKey(obj, sanitizedKey, rnd, k) ==
    IF \E i \in 1..Len(entriesOf(obj)) : entriesOf(obj)[i].k = sanitizedKey
    THEN [key |-> sanitizedKey, k |-> k]
    ELSE findKeyFrom(entriesOf(obj), 1, sanitizedKey, rnd, k)

RECURSIVE splitOn(_, _)
splitOn(s, sep) ==
    IF ~(\E i \in 1..Len(s) : Ch(s, i) = sep) THEN <<s>>
    ELSE LET i == CHOOSE j \in 1..Len(s) : Ch(s, j) = sep /\ \A h \in 1..(j - 1) : Ch(s, h) # sep
         IN  <<SubSeq(s, 1, i - 1)>> \o splitOn(SubSeq(s, i + 1, Len(s)), sep)
RECURSIVE joinWith(_, _)
joinWith(parts, sep) ==
    IF parts = <<>> THEN ""
    ELSE IF Len(parts) = 1 THEN parts[1]
    ELSE parts[1] \o sep \o joinWith(Tail(parts), sep)

\* the value one schema column receives: [st, value, skip] (skip is the loop's continue)
columnValue(st, obj, columnName, type, E) ==
    LET none == [st |-> st, value |-> JNull, skip |-> FALSE]
    IN  IF columnName = "id" /\ includes(type, "AUTOINCREMENT")
        THEN [st |-> st, value |-> JNull, skip |-> TRUE]
        ELSE IF endsWith(columnName, "_id") /\ ~includes(columnName, "_json")
        THEN LET f == call("findOriginalKey", <<obj, SubSeq(columnName, 1, Len(columnName) - 3), E.rnd, st.k>>)
                 s1 == [st EXCEPT !.k = f.k]
                 o == propOf(obj, f.key)
             IN  IF f.key # "" /\ Truthy(o) /\ TypeofObject(o)
                 THEN [st |-> s1, value |-> orNull(propOf(o, "id")), skip |-> FALSE]
                 ELSE [none EXCEPT !.st = s1]
        ELSE IF includes(columnName, "_") /\ ~endsWith(columnName, "_json")
        THEN LET parts == splitOn(columnName, "_")
                 f == call("findOriginalKey", <<obj, parts[1], E.rnd, st.k>>)
                 nestedObj == propOf(obj, f.key)
                 nested == f.key # "" /\ Truthy(nestedObj) /\ TypeofObject(nestedObj)
                 g == IF nested
                      THEN call("findOriginalKey", <<nestedObj, joinWith(Tail(parts), "_"), E.rnd, f.k>>)
                      ELSE [key |-> "", k |-> f.k]
                 s1 == [st EXCEPT !.k = g.k]
             IN  IF nested /\ g.key # "" /\ propOf(nestedObj, g.key).t # "undef"
                 THEN [st |-> s1, value |-> boolToInt(propOf(nestedObj, g.key)), skip |-> FALSE]
                 ELSE [none EXCEPT !.st = s1]
        ELSE IF endsWith(columnName, "_json")
        THEN LET f == call("findOriginalKey", <<obj, SubSeq(columnName, 1, Len(columnName) - 5), E.rnd, st.k>>)
                 s1 == [st EXCEPT !.k = f.k]
                 o == propOf(obj, f.key)
                 j == smartJsonStringify(s1.db, o, draw(E.uuid, s1.ku), E.platform)
             IN  IF f.key # "" /\ Truthy(o) /\ TypeofObject(o)
                 THEN [st |-> [s1 EXCEPT !.db = j.db, !.err = j.err, !.ku = @ + j.stored,
                                         !.tokens = IF j.stored = 1 /\ j.err = ""
                                                    THEN @ \cup {j.s} ELSE @],
                       value |-> JStr(j.s), skip |-> FALSE]
                 ELSE [none EXCEPT !.st = s1]
        ELSE LET f == call("findOriginalKey", <<obj, columnName, E.rnd, st.k>>)
                 s1 == [st EXCEPT !.k = f.k]
                 o == propOf(obj, f.key)
             IN  IF f.key # "" /\ o.t # "undef"
                 THEN [st |-> s1, value |-> boolToInt(o),
                       skip |-> IsArr(o) /\ Len(o.a) > 0 /\ isEntity(o.a[1])]
                 ELSE [none EXCEPT !.st = s1]

\* m = [st, rowData]
RECURSIVE mapColumnsFrom(_, _, _, _, _)
mapColumnsFrom(m, obj, columns, i, E) ==
    IF i > Len(columns) \/ m.st.err # "" THEN m
    ELSE LET c == call("columnValue", <<m.st, obj, columns[i].k, columns[i].v, E>>)
         IN  call("mapColumnsFrom", <<[st |-> c.st,
                             rowData |-> IF ~c.skip /\ c.value.t \notin {"null", "undef"}
                                         THEN MapSet(m.rowData, columns[i].k, c.value)
                                         ELSE m.rowData],
                            obj, columns, i + 1, E>>)

mapEntityToSchema(st, obj, columns, E) ==
    IF ~Truthy(obj) \/ ~TypeofObject(obj)
    THEN [st |-> st, rowData |-> IF MapHas(columns, "value") THEN <<KV("value", obj)>> ELSE <<>>]
    ELSE call("mapColumnsFrom", <<[st |-> st, rowData |-> <<>>], obj, columns, 1, E>>)

procHas(st, tableName, entity) ==
    MapHas(st.proc, tableName) /\ MapHas(MapGet(st.proc, tableName), entity.oid)
getEntityId(st, entity, entityType) ==
    IF procHas(st, entityType, entity) THEN orNull(MapGet(MapGet(st.proc, entityType), entity.oid))
    ELSE JNull

mapValues(m) == [i \in 1..Len(m) |-> m[i].v]

\* INSERT OR IGNORE of one entity, then the id the engine remembers for it
insertEntityRecord(st, entity, tableName, columns, E) ==
    IF st.err # "" \/ procHas(st, tableName, entity) THEN st
    ELSE
      LET m == mapEntityToSchema(st, entity, columns, E)
          r == call("sqlInsert", <<m.st.db, "ignore", tableName, MapKeys(m.rowData), mapValues(m.rowData)>>)
          rowId == IF MapHas(m.rowData, "id") THEN MapGet(m.rowData, "id") ELSE JUndef
          insertedId == IF Truthy(rowId) THEN rowId ELSE orNull(JInt(r.db.lastId))
          entityMap == IF MapHas(m.st.proc, tableName) THEN MapGet(m.st.proc, tableName) ELSE <<>>
      IN  IF m.st.err # "" \/ Len(m.rowData) = 0 THEN m.st
          ELSE IF r.err # "" THEN [m.st EXCEPT !.db = r.db, !.err = r.err]
          ELSE IF Truthy(insertedId)
               THEN [m.st EXCEPT !.db = r.db,
                                 !.proc = MapSet(@, tableName,
                                                 MapSet(entityMap, entity.oid, insertedId))]
          ELSE [m.st EXCEPT !.db = r.db]

\* the segment of the path the insertion engine names a type after
insertionPathName(path) ==
    LET n == Len(path)
        lastPath == path[n]
    IN  IF lastPath = "edges" /\ n > 1 THEN path[n - 1]
        ELSE IF lastPath = "rows" /\ n > 1 THEN path[n - 1]
        ELSE IF endsWith(lastPath, "s") /\ Len(lastPath) > 1
             THEN SubSeq(lastPath, 1, Len(lastPath) - 1)
        ELSE lastPath

\* DataInsertionEngine.inferEntityType: [type, draws]
insertionEntityType(obj, path, r) ==
    LET typename == Get(obj, "__typename")
        type == Get(obj, "type")
    IN  IF Truthy(typename)
        THEN [type |-> sanitizeTableNameOf(typename, r), draws |-> tableNameDrawsOf(typename)]
        ELSE IF Truthy(type) /\ type.t = "str"
        THEN [type |-> sanitizeTableName(type.s, r), draws |-> tableNameDraws(type.s)]
        ELSE IF Truthy(Get(obj, "ensemblId")) THEN [type |-> "target", draws |-> 0]
        ELSE IF Truthy(Get(obj, "efoId")) THEN [type |-> "disease", draws |-> 0]
        ELSE IF Truthy(Get(obj, "chemblId")) THEN [type |-> "drug", draws |-> 0]
        ELSE IF Truthy(Get(obj, "approvedSymbol")) THEN [type |-> "target", draws |-> 0]
        ELSE IF Len(path) > 0
        THEN [type |-> sanitizeTableName(insertionPathName(path), r),
              draws |-> tableNameDraws(insertionPathName(path))]
        ELSE [type |-> "entity_" \o r, draws |-> 1]

\* SchemaParser.shouldExtractEntities with no extraction rule loaded
entityFieldPatterns ==
    {"target", "targets", "disease", "diseases", "drug", "drugs", "evidence", "evidences",
     "studie", "studies", "association", "associations", "variant", "variants", "gene", "genes"}
inferTargetType(fieldName) ==
    LET singular == IF endsWith(fieldName, "s") THEN SubSeq(fieldName, 1, Len(fieldName) - 1)
                    ELSE fieldName
    IN  IF singular = "" THEN ""
        ELSE toUpperChar(Ch(singular, 1)) \o SubSeq(singular, 2, Len(singular))
shouldExtractEntities(typeName, fieldName) ==
    [extract |-> \E w \in entityFieldPatterns : endsWith(toLowerCase(fieldName), w),
     targetType |-> inferTargetType(fieldName)]

\* `${id}` of an id the engine remembered
idText(v) == IF v.t = "num" THEN numberToString(v) ELSE IF v.t = "str" THEN v.s ELSE "null"

addPair(rels, relationshipKey, pair) ==
    LET have == IF MapHas(rels, relationshipKey) THEN MapGet(rels, relationshipKey) ELSE <<>>
    IN  MapSet(rels, relationshipKey, IF SeqHas(have, pair) THEN have ELSE Append(have, pair))

RECURSIVE processEntityRelationships(_, _, _, _, _)
RECURSIVE processRelatedItems(_, _, _, _, _, _, _, _)
RECURSIVE processRelationshipsFrom(_, _, _, _, _, _)
\* the loop over the items of one array field
processRelatedItems(st, entity, entityType, items, i, relatedEntityType, schemas, E) ==
    IF i > Len(items) \/ st.err # "" THEN st
    ELSE IF isEntity(items[i]) /\ MapHas(schemas, relatedEntityType)
    THEN LET s1 == call("insertEntityRecord", <<st, items[i], relatedEntityType,
                                      MapGet(schemas, relatedEntityType), E>>)
             entityId == call("getEntityId", <<s1, entity, entityType>>)
             relatedId == call("getEntityId", <<s1, items[i], relatedEntityType>>)
             s2 == IF Truthy(entityId) /\ Truthy(relatedId)
                   THEN [s1 EXCEPT !.rels = addPair(@, sortJoin(entityType, relatedEntityType),
                                                    idText(entityId) \o "_" \o idText(relatedId))]
                   ELSE s1
             s3 == IF s1.err # "" THEN s1
                   ELSE processEntityRelationships(s2, items[i], relatedEntityType, schemas, E)
         IN  call("processRelatedItems", <<s3, entity, entityType, items, i + 1, relatedEntityType,
                                 schemas, E>>)
    ELSE call("processRelatedItems", <<st, entity, entityType, items, i + 1, relatedEntityType, schemas, E>>)

processRelationshipsFrom(st, entity, i, entityType, schemas, E) ==
    IF i > Len(entity.o) \/ st.err # "" THEN st
    ELSE
      LET key == entity.o[i].k
          value == entity.o[i].v
          extractionInfo == call("shouldExtractEntities", <<entityType, key>>)
          s1 ==
            IF IsArr(value) /\ Len(value.a) > 0
            THEN IF extractionInfo.extract /\ isEntity(value.a[1])
                 THEN LET byPath == call("insertionEntityType", <<value.a[1], <<key>>, draw(E.rnd, st.k)>>)
                          named == extractionInfo.targetType # ""
                      IN  call("processRelatedItems", <<
                              [st EXCEPT !.k = IF named THEN @ ELSE @ + byPath.draws],
                              entity, entityType, value.a, 1,
                              IF named THEN extractionInfo.targetType ELSE byPath.type,
                              schemas, E>>)
                 ELSE IF call("firstEntityIndex", <<value.a>>) > 0
                 THEN LET t == call("insertionEntityType", <<value.a[call("firstEntityIndex", <<value.a>>)], <<key>>,
                                                   draw(E.rnd, st.k)>>)
                      IN  call("processRelatedItems", <<[st EXCEPT !.k = @ + t.draws], entity, entityType,
                                              value.a, 1, t.type, schemas, E>>)
                 ELSE st
            ELSE IF Truthy(value) /\ TypeofObject(value) /\ isEntity(value)
            THEN LET t == call("insertionEntityType", <<value, <<key>>, draw(E.rnd, st.k)>>)
                     s0 == [st EXCEPT !.k = @ + t.draws]
                     s2 == call("insertEntityRecord", <<s0, value, t.type, MapGet(schemas, t.type), E>>)
                 IN  IF ~MapHas(schemas, t.type) THEN s0
                     ELSE IF s2.err # "" THEN s2
                     ELSE processEntityRelationships(s2, value, t.type, schemas, E)
            ELSE st
      IN  call("processRelationshipsFrom", <<s1, entity, i + 1, entityType, schemas, E>>)

processEntityRelationships(st, entity, entityType, schemas, E) ==
    call("processRelationshipsFrom", <<st, entity, 1, entityType, schemas, E>>)

RECURSIVE insertAllEntities(_, _, _, _, _)
RECURSIVE insertAllSeq(_, _, _, _, _, _)
RECURSIVE insertAllChildren(_, _, _, _, _, _)
insertAllSeq(st, items, i, schemas, path, E) ==
    IF i > Len(items) \/ st.err # "" THEN st
    ELSE insertAllSeq(call("insertAllEntities", <<st, items[i], schemas, path, E>>), items, i + 1, schemas,
                      path, E)
insertAllChildren(st, obj, i, schemas, path, E) ==
    IF i > Len(obj.o) \/ st.err # "" THEN st
    ELSE insertAllChildren(call("insertAllEntities", <<st, obj.o[i].v, schemas, Append(path, obj.o[i].k), E>>),
                           obj, i + 1, schemas, path, E)
insertAllEntities(st, obj, schemas, path, E) ==
    IF st.err # "" \/ ~Truthy(obj) \/ ~TypeofObject(obj) THEN st
    ELSE IF IsArr(obj) THEN insertAllSeq(st, obj.a, 1, schemas, path, E)
    ELSE IF Truthy(Get(obj, "edges")) /\ IsArr(Get(obj, "edges"))
         THEN insertAllSeq(st, call("edgeNodes", <<Get(obj, "edges").a>>), 1, schemas, path, E)
    ELSE IF Truthy(Get(obj, "rows")) /\ IsArr(Get(obj, "rows"))
         THEN insertAllSeq(st, Get(obj, "rows").a, 1, schemas, path, E)
    ELSE
      LET t == call("insertionEntityType", <<obj, path, draw(E.rnd, st.k)>>)
          s0 == [st EXCEPT !.k = @ + t.draws]
          s1 == call("insertEntityRecord", <<s0, obj, t.type, MapGet(schemas, t.type), E>>)
          s2 == IF ~isEntity(obj) THEN st
                ELSE IF ~MapHas(schemas, t.type) THEN s0
                ELSE IF s1.err # "" THEN s1
                ELSE processEntityRelationships(s1, obj, t.type, schemas, E)
      IN  insertAllChildren(s2, obj, 1, schemas, path, E)

\* Number(text)
toNumber(text) ==
    LET parts == splitOn(text, ".")
    IN  IF text = "" THEN JInt(0)
        ELSE IF isDigits(text) THEN JInt(digitsToNat(text))
        ELSE IF Ch(text, 1) = "-" /\ isDigits(Tail(text)) THEN JInt(0 - digitsToNat(Tail(text)))
        ELSE IF Len(parts) = 2 /\ isDigits(parts[1]) /\ isDigits(parts[2]) /\ Len(parts[2]) = 1
             THEN JReal(digitsToNat(parts[1]), digitsToNat(parts[2]))
        ELSE JNull

RECURSIVE insertPairsFrom(_, _, _, _)
insertPairsFrom(st, relationshipKey, pairs, i) ==
    IF i > Len(pairs) \/ st.err # "" THEN st
    ELSE LET tables == splitOn(relationshipKey, "_")
             ids == splitOn(pairs[i], "_")
             r == call("sqlInsert", <<st.db, "ignore", relationshipKey,
                            <<tables[1] \o "_id", tables[2] \o "_id">>,
                            <<call("toNumber", <<ids[1]>>), call("toNumber", <<ids[2]>>)>>>>)
         IN  call("insertPairsFrom", <<[st EXCEPT !.db = r.db, !.err = r.err], relationshipKey, pairs, i + 1>>)

RECURSIVE insertJunctionFrom(_, _, _)
insertJunctionFrom(st, i, schemas) ==
    IF i > Len(st.rels) \/ st.err # "" THEN st
    ELSE IF MapHas(schemas, st.rels[i].k)
         THEN insertJunctionFrom(call("insertPairsFrom", <<st, st.rels[i].k, st.rels[i].v, 1>>), i + 1, schemas)
    ELSE insertJunctionFrom(st, i + 1, schemas)

insertJunctionTableRecords(st, schemas) == insertJunctionFrom(st, 1, schemas)

\* the value mapObjectToSimpleSchema binds for a property: [st, value]
simpleValue(st, val, asJson, E) ==
    LET j == smartJsonStringify(st.db, val, draw(E.uuid, st.ku), E.platform)
    IN  IF asJson \/ (TypeofObject(val) /\ val.t # "null")
        THEN [st |-> [st EXCEPT !.db = j.db, !.err = j.err, !.ku = @ + j.stored,
                                !.tokens = IF j.stored = 1 /\ j.err = "" THEN @ \cup {j.s} ELSE @],
              value |-> JStr(j.s)]
        ELSE [st |-> st, value |-> boolToInt(val)]

RECURSIVE mapSimpleFrom(_, _, _, _, _)
mapSimpleFrom(m, obj, columns, i, E) ==
    IF i > Len(columns) \/ m.st.err # "" THEN m
    ELSE
      LET columnName == columns[i].k
          isJson == endsWith(columnName, "_json")
          f == call("findOriginalKey", <<obj, IF isJson THEN SubSeq(columnName, 1, Len(columnName) - 5)
                                    ELSE columnName, E.rnd, m.st.k>>)
          s1 == [m.st EXCEPT !.k = f.k]
          originalKeyFound == f.key # "" /\ propOf(obj, f.key).t # "undef"
          c == IF originalKeyFound THEN call("simpleValue", <<s1, propOf(obj, f.key), isJson, E>>)
               ELSE IF propOf(obj, columnName).t # "undef"
                    THEN call("simpleValue", <<s1, propOf(obj, columnName), FALSE, E>>)
               ELSE [st |-> s1, value |-> JUndef]
      IN  call("mapSimpleFrom", <<[st |-> c.st,
                         rowData |-> IF c.value.t # "undef"
                                     THEN MapSet(m.rowData, columnName, c.value) ELSE m.rowData],
                        obj, columns, i + 1, E>>)

mapObjectToSimpleSchema(st, obj, columns, E) ==
    IF obj.t = "null" \/ ~TypeofObject(obj)
    THEN [st |-> st,
          rowData |-> IF MapHas(columns, "value") THEN <<KV("value", obj)>>
                      ELSE IF Len(columns) > 0 THEN <<KV(columns[1].k, obj)>>
                      ELSE <<>>]
    ELSE call("mapSimpleFrom", <<[st |-> st, rowData |-> <<>>], obj, columns, 1, E>>)

insertSimpleRow(st, obj, tableName, columns, E) ==
    IF st.err # "" THEN st
    ELSE LET m == mapObjectToSimpleSchema(st, obj, columns, E)
             r == call("sqlInsert", <<m.st.db, "abort", tableName, MapKeys(m.rowData), mapValues(m.rowData)>>)
         IN  IF m.st.err # "" THEN m.st
             ELSE IF Len(m.rowData) = 0 /\ ~(tableName = "scalar_data" /\ obj.t = "null") THEN m.st
             ELSE [m.st EXCEPT !.db = r.db, !.err = r.err]

RECURSIVE insertSimpleRows(_, _, _, _, _, _)
insertSimpleRows(st, items, i, tableName, columns, E) ==
    IF i > Len(items) \/ st.err # "" THEN st
    ELSE insertSimpleRows(call("insertSimpleRow", <<st, items[i], tableName, columns, E>>), items, i + 1,
                          tableName, columns, E)

\* the engine's state when insertData starts, k Math.random() calls into the operation
freshInsertion(db, k) ==
    [db |-> db, err |-> "", k |-> k, ku |-> 0, proc |-> <<>>, rels |-> <<>>, tokens |-> {}]

insertData(db, data, schemas, k, E) ==
    LET st == freshInsertion(db, k)
        tableName == schemas[1].k
    IN  IF Len(schemas) = 1 /\ tableName \in {"scalar_data", "array_data", "root_object"}
        THEN IF tableName \in {"scalar_data", "root_object"}
             THEN call("insertSimpleRow", <<st, data, tableName, schemas[1].v, E>>)
             ELSE IF IsArr(data) THEN insertSimpleRows(st, data.a, 1, tableName, schemas[1].v, E)
             ELSE call("insertSimpleRow", <<st, data, tableName, schemas[1].v, E>>)
        ELSE insertJunctionTableRecords(call("insertAllEntities", <<st, data, schemas, <<>>, E>>), schemas)

(***************************************************************************)
(* JsonToSqlDO: staging                                                    *)
(***************************************************************************)
validTypes ==
    <<"INTEGER", "REAL", "TEXT", "BLOB", "NUMERIC", "INTEGER PRIMARY KEY",
      "INTEGER PRIMARY KEY AUTOINCREMENT", "JSON">>
typeMap ==
    <<KV("STRING", "TEXT"), KV("VARCHAR", "TEXT"), KV("CHAR", "TEXT"), KV("CLOB", "TEXT"),
      KV("INT", "INTEGER"), KV("BIGINT", "INTEGER"), KV("SMALLINT", "INTEGER"),
      KV("TINYINT", "INTEGER"), KV("FLOAT", "REAL"), KV("DOUBLE", "REAL"),
      KV("DECIMAL", "NUMERIC"), KV("BOOLEAN", "INTEGER"), KV("BOOL", "INTEGER"),
      KV("DATE", "TEXT"), KV("DATETIME", "TEXT"), KV("TIMESTAMP", "TEXT")>>
RECURSIVE toUpperCase(_)
toUpperCase(s) == IF s = "" THEN "" ELSE toUpperChar(Head(s)) \o toUpperCase(Tail(s))
validateSQLiteType(type) ==
    IF type = "" THEN "TEXT"
    ELSE IF \E i \in 1..Len(validTypes) : includes(toUpperCase(type), validTypes[i]) THEN type
    ELSE IF MapHas(typeMap, toUpperCase(type)) THEN MapGet(typeMap, toUpperCase(type))
    ELSE "TEXT"

RECURSIVE createTablesFrom(_, _, _)
createTablesFrom(db, schemas, i) ==
    IF i > Len(schemas) THEN db
    ELSE
      LET tableName == schemas[i].k
          columns == schemas[i].v
          validTableName == call("validateAndFixIdentifier", <<tableName, "table">>)
          validColumnDefs == [j \in 1..Len(columns) |->
                                 KV(call("validateAndFixIdentifier", <<columns[j].k, "column">>),
                                    call("validateSQLiteType", <<columns[j].v>>))]
          r == call("sqlCreateTable", <<db, "table", validTableName, validColumnDefs, {}>>)
          fallback == call("sqlCreateTable", <<r.db, "table", call("validateAndFixIdentifier", <<tableName, "table">>),
                                     <<KV("id", "INTEGER PRIMARY KEY AUTOINCREMENT"),
                                       KV("data_json", "TEXT")>>, {}>>)
      IN  IF Len(validColumnDefs) = 0 THEN call("createTablesFrom", <<db, schemas, i + 1>>)
          ELSE IF r.err = "" THEN call("createTablesFrom", <<r.db, schemas, i + 1>>)
          ELSE call("createTablesFrom", <<fallback.db, schemas, i + 1>>)

createTables(db, schemas) == call("createTablesFrom", <<db, schemas, 1>>)

\* m = [db, schemas, total_rows]
RECURSIVE generateMetadataFrom(_, _, _)
generateMetadataFrom(m, schemas, i) ==
    IF i > Len(schemas) THEN m
    ELSE LET tableName == schemas[i].k
             countResult == call("sqlCount", <<m.db, tableName>>)
             rowCount == countResult.rows[1][1].v.n
             sampleResult == call("sqlSelect", <<countResult.db, tableName, <<>>, 3>>)
         IN  IF countResult.err # ""
             THEN call("generateMetadataFrom", <<[m EXCEPT !.db = countResult.db], schemas, i + 1>>)
             ELSE IF sampleResult.err # ""
             THEN call("generateMetadataFrom", <<[m EXCEPT !.db = sampleResult.db], schemas, i + 1>>)
             ELSE call("generateMetadataFrom", <<
                      [db |-> sampleResult.db,
                       schemas |-> MapSet(m.schemas, tableName,
                                          [columns |-> schemas[i].v, row_count |-> rowCount,
                                           sample_data |-> sampleResult.rows]),
                       total_rows |-> m.total_rows + rowCount], schemas, i + 1>>)

generateMetadata(db, schemas) ==
    call("generateMetadataFrom", <<[db |-> db, schemas |-> <<>>, total_rows |-> 0], schemas, 1>>)

\* returns [db, result, tokens]: the storage, the ProcessingResult and the chunk references
\* the chunk store handed out on the way
processAndStoreJsonRollingBack(db, jsonData, E) ==
    LET dataToProcess == IF jsonData.t = "obj" /\ Truthy(Get(jsonData, "data"))
                         THEN Get(jsonData, "data") ELSE jsonData
        inferred == call("inferFromJSON", <<dataToProcess, E.rnd>>)
        created == createTables(db, inferred.schemas)
        st == call("insertData", <<created, dataToProcess, inferred.schemas, inferred.k, E>>)
        metadata == generateMetadata(st.db, inferred.schemas)
    IN  IF st.err # ""
        THEN [db |-> db, tokens |-> {},
              result |-> [success |-> FALSE, message |-> st.err]]
        ELSE [db |-> metadata.db, tokens |-> st.tokens,
              result |-> [success |-> TRUE,
                          message |-> "Open Targets data processed successfully",
                          schemas |-> metadata.schemas,
                          table_count |-> Len(inferred.schemas),
                          total_rows |-> metadata.total_rows]]

processAndStoreJson(db, jsonData, E) ==
    LET dataToProcess == IF jsonData.t = "obj" /\ Truthy(Get(jsonData, "data"))
                         THEN Get(jsonData, "data") ELSE jsonData
        inferred == call("inferFromJSON", <<dataToProcess, E.rnd>>)
        created == createTables(db, inferred.schemas)
        st == call("insertData", <<created, dataToProcess, inferred.schemas, inferred.k, E>>)
        metadata == generateMetadata(st.db, inferred.schemas)
    IN  IF st.err # ""
        THEN [db |-> st.db, tokens |-> st.tokens,
              result |-> [success |-> FALSE, message |-> st.err]]
        ELSE [db |-> metadata.db, tokens |-> st.tokens,
              result |-> [success |-> TRUE,
                          message |-> "Open Targets data processed successfully",
                          schemas |-> metadata.schemas,
                          table_count |-> Len(inferred.schemas),
                          total_rows |-> metadata.total_rows]]

(***************************************************************************)
(* JsonToSqlDO: the SQL gate.  A blocked pattern is its source text and    *)
(* the items of the regular expression after the leading \b: a literal     *)
(* word, \s+ ("sp"), \w+ ("w") or the negative lookahead (?!a|b) ("not").  *)
(***************************************************************************)
allowedStarters ==
    <<"select", "with", "pragma", "explain", "create temporary table", "create temp table",
      "create view", "create temporary view", "create temp view", "drop view",
      "drop temporary table", "drop temp table">>

lit(s) == [t |-> "lit", s |-> s, alts |-> {}]
sp == [t |-> "sp", s |-> "", alts |-> {}]
word == [t |-> "w", s |-> "", alts |-> {}]
notAhead(alts) == [t |-> "not", s |-> "", alts |-> alts]

blockedPatterns ==
    << [source |-> "\\bdrop\\s+table\\s+(?!temp|temporary)",
        items |-> <<lit("drop"), sp, lit("table"), sp, notAhead({"temp", "temporary"})>>],
       [source |-> "\\bdelete\\s+from", items |-> <<lit("delete"), sp, lit("from")>>],
       [source |-> "\\bupdate\\s+\\w+\\s+set", items |-> <<lit("update"), sp, word, sp, lit("set")>>],
       [source |-> "\\binsert\\s+into\\s+(?!temp|temporary)",
        items |-> <<lit("insert"), sp, lit("into"), sp, notAhead({"temp", "temporary"})>>],
       [source |-> "\\balter\\s+table", items |-> <<lit("alter"), sp, lit("table")>>],
       [source |-> "\\bcreate\\s+table\\s+(?!temp|temporary)",
        items |-> <<lit("create"), sp, lit("table"), sp, notAhead({"temp", "temporary"})>>],
       [source |-> "\\battach\\s+database", items |-> <<lit("attach"), sp, lit("database")>>],
       [source |-> "\\bdetach\\s+database", items |-> <<lit("detach"), sp, lit("database")>>] >>

\* the items from the i-th on match the (lowercased) text at position pos
RECURSIVE matchesAt(_, _, _, _)
matchesAt(items, i, text, pos) ==
    IF i > Len(items) THEN TRUE
    ELSE LET it == items[i]
             rest == SubSeq(text, pos, Len(text))
             run(chars) == {n \in 1..Len(rest) : \A h \in 1..n : Ch(rest, h) \in chars}
         IN  CASE it.t = "lit" -> startsWith(rest, it.s) /\ call("matchesAt", <<items, i + 1, text, pos + Len(it.s)>>)
               [] it.t = "sp" -> \E n \in run(SpaceChars) : call("matchesAt", <<items, i + 1, text, pos + n>>)
               [] it.t = "w" -> \E n \in run(WordChars) : call("matchesAt", <<items, i + 1, text, pos + n>>)
               [] it.t = "not" -> (\A a \in it.alts : ~startsWith(rest, a))
                                  /\ call("matchesAt", <<items, i + 1, text, pos>>)

\* pattern.test(sql) of a case-insensitive pattern that starts with \b and a letter
regexTest(pattern, sql) ==
    LET text == toLowerCase(sql)
    IN  \E pos \in 1..Len(text) :
            /\ pos = 1 \/ Ch(text, pos - 1) \notin WordChars
            /\ call("matchesAt", <<pattern.items, 1, text, pos>>)

validateAnalyticalSqlStartersOnly(sql) ==
    LET trimmedSql == toLowerCase(trim(sql))
        startsWithAllowed == \E i \in 1..Len(allowedStarters) : startsWith(trimmedSql, allowedStarters[i])
    IN  IF ~startsWithAllowed
        THEN [isValid |-> FALSE, queryType |-> "",
              error |-> "Query type not allowed. Permitted operations: "
                        \o joinWith(allowedStarters, ", ")]
        ELSE [isValid |-> TRUE, error |-> "",
              queryType |-> IF startsWith(trimmedSql, "with") THEN "cte"
                            ELSE IF startsWith(trimmedSql, "pragma") THEN "pragma"
                            ELSE IF startsWith(trimmedSql, "explain") THEN "explain"
                            ELSE IF includes(trimmedSql, "create") THEN "create_temp"
                            ELSE "select"]

validateAnalyticalSql(sql) ==
    LET trimmedSql == toLowerCase(trim(sql))
        startsWithAllowed == \E i \in 1..Len(allowedStarters) : startsWith(trimmedSql, allowedStarters[i])
        blocked == {i \in 1..Len(blockedPatterns) : call("regexTest", <<blockedPatterns[i], sql>>)}
        first == CHOOSE i \in blocked : \A j \in blocked : i <= j
    IN  IF ~startsWithAllowed
        THEN [isValid |-> FALSE, queryType |-> "",
              error |-> "Query type not allowed. Permitted operations: "
                        \o joinWith(allowedStarters, ", ")]
        ELSE IF blocked # {}
        THEN [isValid |-> FALSE, queryType |-> "",
              error |-> "Operation blocked for security: " \o blockedPatterns[first].source]
        ELSE [isValid |-> TRUE, error |-> "",
              queryType |-> IF startsWith(trimmedSql, "with") THEN "cte"
                            ELSE IF startsWith(trimmedSql, "pragma") THEN "pragma"
                            ELSE IF startsWith(trimmedSql, "explain") THEN "explain"
                            ELSE IF includes(trimmedSql, "create") THEN "create_temp"
                            ELSE "select"]

(***************************************************************************)
(* The requests the model submits: GraphQL results to stage, statements to *)
(* run (each with the parse tree SQLite builds for its text) and texts     *)
(* handed to the chunk store.                                              *)
(***************************************************************************)
entity2(k1, v1, k2, v2) == JObj(<<KV(k1, v1), KV(k2, v2)>>)
underData(v) == JObj(<<KV("data", v)>>)

Payloads ==
    << \* 1: one entity with a camelCase field
       underData(JObj(<<KV("target", JObj(<<KV("id", JStr("ENSG00000169083")),
                                            KV("approvedSymbol", JStr("AR")),
                                            KV("biotype", JStr("protein_coding"))>>))>>)),
       \* 2: one-to-many through a rows wrapper
       underData(JObj(<<KV("target", JObj(<<
           KV("id", JStr("ENSG1")), KV("approvedSymbol", JStr("AR")),
           KV("associatedDiseases", JObj(<<KV("rows", JArr(<<
               entity2("disease", entity2("id", JStr("EFO1"), "name", JStr("a")),
                       "score", JReal(0, 9)),
               entity2("disease", entity2("id", JStr("EFO2"), "name", JStr("b")),
                       "score", JReal(0, 5))>>))>>))>>))>>)),
       \* 3: one-to-many through an edges wrapper
       underData(JObj(<<KV("target", JObj(<<
           KV("id", JStr("ENSG1")), KV("name", JStr("t")),
           KV("drugs", JObj(<<KV("edges", JArr(<<
               JObj(<<KV("node", entity2("id", JStr("CHEMBL1"), "name", JStr("x")))>>),
               JObj(<<KV("node", entity2("id", JStr("CHEMBL2"), "name", JStr("y")))>>)>>))>>))
           >>))>>)),
       \* 4, 5: an array of entities under a parent whose type sorts after / before theirs
       underData(JObj(<<KV("target", JObj(<<
           KV("id", JInt(1)), KV("name", JStr("t")),
           KV("items", JArr(<<entity2("id", JInt(2), "name", JStr("a")),
                              entity2("id", JInt(3), "name", JStr("b"))>>))>>))>>)),
       underData(JObj(<<KV("drug", JObj(<<
           KV("id", JInt(10)), KV("name", JStr("d")),
           KV("items", JArr(<<entity2("id", JInt(20), "name", JStr("x"))>>))>>))>>)),
       \* 6: the root is itself an entity
       underData(JObj(<<KV("id", JInt(1)), KV("name", JStr("root")),
                        KV("items", JArr(<<entity2("id", JInt(2), "name", JStr("a"))>>))>>)),
       \* 7, 8: a key and a type discriminator that sanitise to the empty string
       underData(JObj(<<KV("target", entity2("id", JStr("T1"), "$", JStr("x")))>>)),
       underData(JObj(<<KV("thing", entity2("id", JInt(1), "__typename", JStr("$$")))>>)),
       \* 9, 10: a long scalar text and a long JSON value
       underData(JObj(<<KV("target", entity2("id", JStr("T1"), "description", JStr(LongProse)))>>)),
       underData(JObj(<<KV("target", entity2("id", JStr("T1"), "tags",
                                             JArr(<<JStr(LongText), JStr("b\"c")>>)))>>)),
       \* 11, 12: types named by words of SQL
       underData(JObj(<<KV("left", entity2("id", JInt(1), "name", JStr("l")))>>)),
       underData(JObj(<<KV("order", entity2("id", JInt(1), "limit", JStr("o")))>>)),
       \* 13: a nested object with scalar fields and a nested single entity
       underData(JObj(<<KV("target", JObj(<<
           KV("id", JStr("T1")), KV("name", JStr("t")),
           KV("meta", entity2("isOk", JBool(TRUE), "rank", JInt(3))),
           KV("gene", entity2("id", JInt(7), "name", JStr("g")))>>))>>)),
       \* 14: three entities, the second with a field named by a word of SQL
       underData(JObj(<<KV("disease", entity2("id", JStr("D1"), "name", JStr("d"))),
                        KV("list", entity2("id", JInt(1), "limit", JInt(5))),
                        KV("drug", entity2("id", JStr("C1"), "name", JStr("x")))>>)),
       \* 15: a type named by a word SQLite reserves and the DDL path does not know
       underData(JObj(<<KV("case", entity2("id", JInt(1), "name", JStr("c")))>>)),
       \* 16: two fields whose DDL names coincide
       underData(JObj(<<KV("target", JObj(<<KV("id", JStr("T1")), KV("limit", JStr("a")),
                                            KV("limitCol", JStr("b"))>>))>>)),
       \* 17 .. 21: payloads without entities: arrays, maps and a scalar
       underData(JArr(<<JInt(1), JInt(2), JStr("x")>>)),
       underData(JArr(<<JObj(<<KV("a", JInt(1))>>), JObj(<<KV("a", JInt(2))>>)>>)),
       underData(JObj(<<KV("a", JInt(1)), KV("b", JStr("x"))>>)),
       underData(JObj(<<>>)),
       underData(JInt(42)),
       \* 22, 23: a JSON value that serialises to exactly the chunk threshold, and to one more
       underData(JObj(<<KV("target", entity2("id", JStr("T1"), "tags",
                                             JArr(<<JStr(AtThreshold)>>)))>>)),
       underData(JObj(<<KV("target", entity2("id", JStr("T1"), "tags",
                                             JArr(<<JStr(OverThreshold)>>)))>>)),
       \* 24: rows whose field a is a map in one and a reference-like text in the other
       underData(JArr(<<JObj(<<KV("a", JObj(<<KV("x", JInt(1))>>))>>),
                        JObj(<<KV("a", JStr(ReferenceLike))>>)>>)),
       \* 25: entities under a plural key in -ies
       underData(JObj(<<KV("therapies", JArr(<<entity2("id", JInt(1), "name", JStr("a")),
                                               entity2("id", JInt(2), "name", JStr("b"))>>))>>)),
       \* 26: a nested single entity whose id is a text
       underData(JObj(<<KV("target", JObj(<<
           KV("id", JStr("T1")), KV("name", JStr("t")),
           KV("gene", entity2("id", JStr("G1"), "name", JStr("g")))>>))>>)),
       \* 27: a type discriminator that names a table of the chunk store
       underData(JObj(<<KV("item", JObj(<<
           KV("__typename", JStr("content_chunks")), KV("id", JInt(1)),
           KV("name", JStr("n"))>>))>>)),
       \* 28: a nested single entity whose id is 0
       underData(JObj(<<KV("target", JObj(<<
           KV("id", JStr("T1")), KV("name", JStr("t")),
           KV("gene", entity2("id", JInt(0), "name", JStr("g")))>>))>>)),
       \* 29: a relation seen in both directions and a relation of a type with itself
       underData(JObj(<<KV("target", JObj(<<
           KV("id", JInt(1)), KV("name", JStr("t")),
           KV("targets", JArr(<<entity2("id", JInt(2), "name", JStr("u"))>>)),
           KV("diseases", JArr(<<JObj(<<
               KV("id", JInt(5)), KV("name", JStr("d")),
               KV("targets", JArr(<<entity2("id", JInt(3), "name", JStr("v"))>>))>>)>>))>>))>>)) >>

select(text, table, cols) == [sql |-> text, ast |-> [op |-> "select", table |-> table, cols |-> cols]]

Statements ==
    << select("SELECT approved_symbol FROM target", "target", <<"approved_symbol">>),
       select("  select * from target", "target", <<>>),
       select("SELECT * FROM chunk_metadata", "chunk_metadata", <<>>),
       select("SELECT * FROM v", "v", <<>>),
       [sql |-> "DROP TABLE foo", ast |-> [op |-> "dropTable", table |-> "foo"]],
       [sql |-> "UPDATE target SET id = 'X'",
        ast |-> [op |-> "update", table |-> "target", col |-> "id", val |-> JStr("X")]],
       [sql |-> "WITH x AS (SELECT 1) UPDATE target SET id = 'X'",
        ast |-> [op |-> "update", table |-> "target", col |-> "id", val |-> JStr("X")]],
       [sql |-> "WITH x AS (SELECT 1) DELETE FROM target",
        ast |-> [op |-> "delete", table |-> "target"]],
       [sql |-> "WITH x AS (SELECT 1) INSERT OR REPLACE INTO target (id) VALUES ('X')",
        ast |-> [op |-> "insert", mode |-> "replace", table |-> "target", cols |-> <<"id">>,
                 vals |-> <<JStr("X")>>]],
       [sql |-> "WITH x AS (SELECT 1) UPDATE \"chunk_metadata\" SET total_chunks = 9",
        ast |-> [op |-> "update", table |-> "chunk_metadata", col |-> "total_chunks",
                 val |-> JInt(9)]],
       [sql |-> "CREATE TEMP TABLE t AS SELECT * FROM target",
        ast |-> [op |-> "createTempAs", table |-> "t", src |-> "target"]],
       [sql |-> "CREATE VIEW v AS SELECT * FROM target",
        ast |-> [op |-> "createView", table |-> "v", src |-> "target"]],
       [sql |-> "DROP VIEW v", ast |-> [op |-> "dropView", table |-> "v"]],
       [sql |-> "CREATE TABLE foo (a TEXT)",
        ast |-> [op |-> "createTable", table |-> "foo", cols |-> <<KV("a", "TEXT")>>]],
       select("SELECT * FROM array_data", "array_data", <<>>) >>

\* JSON.parse, as the inverse of JSON.stringify over the values a payload can hold
RECURSIVE subValues(_)
subValues(v) ==
    {v} \cup (IF v.t = "arr" THEN UNION {subValues(v.a[i]) : i \in 1..Len(v.a)}
              ELSE IF v.t = "obj" THEN UNION {subValues(v.o[i].v) : i \in 1..Len(v.o)}
              ELSE {})
jsonValues == UNION {subValues(Payloads[i]) : i \in 1..Len(Payloads)}
\* bounds on the length of JSON.stringify(v): no character escaped, every character escaped
RECURSIVE sumOver(_, _)
sumOver(q, i) == IF i > Len(q) THEN 0 ELSE q[i] + sumOver(q, i + 1)
RECURSIVE minLength(_, _)
minLength(v, x) ==
    CASE v.t = "str" -> 2 + x * Len(v.s)
      [] v.t = "arr" -> 2 + (IF Len(v.a) = 0 THEN 0 ELSE Len(v.a) - 1)
                          + sumOver([i \in 1..Len(v.a) |-> call("minLength", <<v.a[i], x>>)], 1)
      [] v.t = "obj" -> 2 + (IF Len(v.o) = 0 THEN 0 ELSE Len(v.o) - 1)
                          + sumOver([i \in 1..Len(v.o) |->
                                        3 + x * Len(v.o[i].k) + call("minLength", <<v.o[i].v, x>>)], 1)
      [] v.t = "num" -> (IF x = 1 THEN 1 ELSE 24)
      [] OTHER -> (IF x = 1 THEN 4 ELSE 5)
opens(v, text) ==
    CASE v.t = "arr" -> startsWith(text, "[")
      [] v.t = "obj" -> startsWith(text, "{")
      [] v.t = "str" -> startsWith(text, "\"")
      [] OTHER -> TRUE
jsonParse(text) ==
    LET hits == {v \in jsonValues :
                    /\ opens(v, text)
                    /\ call("minLength", <<v, 1>>) <= Len(text) /\ Len(text) <= call("minLength", <<v, 2>>)
                    /\ call("Stringify", <<v>>) = text}
    IN  IF hits # {} THEN [ok |-> TRUE, v |-> CHOOSE v \in hits : TRUE]
        ELSE [ok |-> FALSE, v |-> JUndef]

(***************************************************************************)
(* JsonToSqlDO: queries                                                    *)
(***************************************************************************)
\* q = [sql, ast]; returns [db, response]
executeSql(db, q) ==
    LET validationResult == call("validateAnalyticalSql", <<q.sql>>)
        result == call("sqlExec", <<db, q.ast>>)
    IN  IF ~validationResult.isValid
        THEN [db |-> db,
              response |-> [success |-> FALSE, error |-> validationResult.error, query |-> q.sql]]
        ELSE IF result.err # ""
        THEN [db |-> result.db,
              response |-> [success |-> FALSE, error |-> result.err, query |-> q.sql]]
        ELSE [db |-> result.db,
              response |-> [success |-> TRUE, results |-> result.rows,
                            row_count |-> Len(result.rows),
                            column_names |-> result.columnNames,
                            query_type |-> validationResult.queryType]]

\* m = [db, row]: one cell of one row
resolveRowFromAgain(m, row, i) ==
    IF i > Len(row) THEN m
    ELSE IF isContentReference(row[i].v)
    THEN LET contentId == extractContentId(row[i].v.s)
             got == call("retrieveChunkedContent", <<m.db, contentId>>)
             parsed == call("jsonParse", <<got.content>>)
             value == IF ~got.found THEN JStr("[CHUNKED_CONTENT_NOT_FOUND:" \o contentId \o "]")
                      ELSE IF parsed.ok THEN parsed.v
                      ELSE JStr(got.content)
             again == call("retrieveChunkedContent", <<got.db, extractContentId(value.s)>>)
             value2 == IF ~isContentReference(value) THEN value
                       ELSE IF ~again.found
                       THEN JStr("[CHUNKED_CONTENT_NOT_FOUND:" \o extractContentId(value.s) \o "]")
                       ELSE JStr(again.content)
         IN  call("resolveRowFrom", <<[db |-> got.db, row |-> Append(m.row, KV(row[i].k, value2))], row, i + 1>>)
    ELSE call("resolveRowFrom", <<[m EXCEPT !.row = Append(@, row[i])], row, i + 1>>)

RECURSIVE resolveRowFrom(_, _, _)
resolveRowFrom(m, row, i) ==
    IF i > Len(row) THEN m
    ELSE IF isContentReference(row[i].v)
    THEN LET contentId == extractContentId(row[i].v.s)
             got == call("retrieveChunkedContent", <<m.db, contentId>>)
             parsed == call("jsonParse", <<got.content>>)
             value == IF ~got.found THEN JStr("[CHUNKED_CONTENT_NOT_FOUND:" \o contentId \o "]")
                      ELSE IF parsed.ok THEN parsed.v
                      ELSE JStr(got.content)
         IN  call("resolveRowFrom", <<[db |-> got.db, row |-> Append(m.row, KV(row[i].k, value))], row, i + 1>>)
    ELSE call("resolveRowFrom", <<[m EXCEPT !.row = Append(@, row[i])], row, i + 1>>)

\* m = [db, rows]
RECURSIVE resolveRowsFrom(_, _, _)
resolveRowsFrom(m, results, i) ==
    IF i > Len(results) THEN m
    ELSE LET r == call("resolveRowFrom", <<[db |-> m.db, row |-> <<>>], results[i], 1>>)
         IN  resolveRowsFrom([db |-> r.db, rows |-> Append(m.rows, r.row)], results, i + 1)

resolveChunkedContentInResults(db, results) ==
    resolveRowsFrom([db |-> db, rows |-> <<>>], results, 1)

rowsJson(rows) == JArr([i \in 1..Len(rows) |-> [t |-> "obj", o |-> rows[i], oid |-> 0]])

executeEnhancedSql(db, q) ==
    LET r == executeSql(db, q)
        enhanced == resolveChunkedContentInResults(r.db, r.response.results)
    IN  IF ~r.response.success THEN r
        ELSE [db |-> enhanced.db,
              response |-> [success |-> TRUE, results |-> enhanced.rows,
                            row_count |-> r.response.row_count,
                            column_names |-> r.response.column_names,
                            query_type |-> r.response.query_type,
                            chunked_content_resolved |->
                                \/ Len(enhanced.rows) # Len(r.response.results)
                                \/ /\ enhanced.rows # r.response.results
                                   /\ call("Stringify", <<rowsJson(enhanced.rows)>>)
                                          # call("Stringify", <<rowsJson(r.response.results)>>)]]

call(f, a) ==
    CASE f = "tableNameCore" -> tableNameCore(a[1])
      [] f = "columnNameCore" -> columnNameCore(a[1])
      [] f = "sanitizeColumnName" -> sanitizeColumnName(a[1], a[2])
      [] f = "validateAndFixIdentifier" -> validateAndFixIdentifier(a[1], a[2])
      [] f = "inferEntityType" -> inferEntityType(a[1], a[2], a[3])
      [] f = "inferEntityTypeDraws" -> inferEntityTypeDraws(a[1], a[2])
      [] f = "recordRelationship" -> recordRelationship(a[1], a[2], a[3])
      [] f = "firstEntityIndex" -> firstEntityIndex(a[1])
      [] f = "processEntityArray" -> processEntityArray(a[1], a[2], a[3], a[4], a[5])
      [] f = "processEntityPropertiesFrom" -> processEntityPropertiesFrom(a[1], a[2], a[3], a[4], a[5])
      [] f = "edgeNodes" -> edgeNodes(a[1])
      [] f = "discoverArray" -> discoverArray(a[1], a[2], a[3], a[4], a[5], a[6], a[7])
      [] f = "discoverEntities" -> discoverEntities(a[1], a[2], a[3], a[4], a[5])
      [] f = "flattenScalarFields" -> flattenScalarFields(a[1], a[2], a[3], a[4], a[5])
      [] f = "extractEntityFieldsFrom" -> extractEntityFieldsFrom(a[1], a[2], a[3], a[4])
      [] f = "extractEntityFields" -> extractEntityFields(a[1], a[2], a[3])
      [] f = "ensureIdColumn" -> ensureIdColumn(a[1])
      [] f = "junctionColumns" -> junctionColumns(a[1], a[2])
      [] f = "createJunctionTableSchemasFrom" -> createJunctionTableSchemasFrom(a[1], a[2], a[3], a[4], a[5])
      [] f = "createEntitySchemasFrom" -> createEntitySchemasFrom(a[1], a[2], a[3], a[4])
      [] f = "extractSimpleFieldsFrom" -> extractSimpleFieldsFrom(a[1], a[2], a[3], a[4])
      [] f = "extractSimpleFields" -> extractSimpleFields(a[1], a[2], a[3])
      [] f = "createSchemaFromPrimitiveOrSimpleArray" -> createSchemaFromPrimitiveOrSimpleArray(a[1], a[2], a[3])
      [] f = "inferFromJSON" -> inferFromJSON(a[1], a[2])
      [] f = "applyAffinity" -> applyAffinity(a[1], a[2])
      [] f = "sqlCreateTable" -> sqlCreateTable(a[1], a[2], a[3], a[4], a[5])
      [] f = "newRow" -> newRow(a[1], a[2], a[3])
      [] f = "rowConflicts" -> rowConflicts(a[1], a[2], a[3])
      [] f = "sqlInsert" -> sqlInsert(a[1], a[2], a[3], a[4], a[5])
      [] f = "readable" -> readable(a[1], a[2])
      [] f = "sourceOf" -> sourceOf(a[1], a[2])
      [] f = "sqlSelect" -> sqlSelect(a[1], a[2], a[3], a[4])
      [] f = "sqlSelectWhere" -> sqlSelectWhere(a[1], a[2], a[3], a[4], a[5])
      [] f = "sqlCount" -> sqlCount(a[1], a[2])
      [] f = "sqlUpdate" -> sqlUpdate(a[1], a[2], a[3], a[4])
      [] f = "sqlDrop" -> sqlDrop(a[1], a[2], a[3])
      [] f = "sqlCreateTempAs" -> sqlCreateTempAs(a[1], a[2], a[3])
      [] f = "sqlExec" -> sqlExec(a[1], a[2])
      [] f = "Stringify" -> Stringify(a[1])
      [] f = "compress" -> compress(a[1], a[2])
      [] f = "decompress" -> decompress(a[1])
      [] f = "ensureChunksTable" -> ensureChunksTable(a[1])
      [] f = "storeChunkedContent" -> storeChunkedContent(a[1], a[2], a[3], a[4], a[5])
      [] f = "getMetadata" -> getMetadata(a[1], a[2])
      [] f = "retrieveChunkedContent" -> retrieveChunkedContent(a[1], a[2])
      [] f = "findOriginalKey" -> findOriginalKey(a[1], a[2], a[3], a[4])
      [] f = "columnValue" -> columnValue(a[1], a[2], a[3], a[4], a[5])
      [] f = "mapColumnsFrom" -> mapColumnsFrom(a[1], a[2], a[3], a[4], a[5])
      [] f = "getEntityId" -> getEntityId(a[1], a[2], a[3])
      [] f = "insertEntityRecord" -> insertEntityRecord(a[1], a[2], a[3], a[4], a[5])
      [] f = "insertionEntityType" -> insertionEntityType(a[1], a[2], a[3])
      [] f = "shouldExtractEntities" -> shouldExtractEntities(a[1], a[2])
      [] f = "processRelatedItems" -> processRelatedItems(a[1], a[2], a[3], a[4], a[5], a[6], a[7], a[8])
      [] f = "processRelationshipsFrom" -> processRelationshipsFrom(a[1], a[2], a[3], a[4], a[5], a[6])
      [] f = "insertAllEntities" -> insertAllEntities(a[1], a[2], a[3], a[4], a[5])
      [] f = "toNumber" -> toNumber(a[1])
      [] f = "insertPairsFrom" -> insertPairsFrom(a[1], a[2], a[3], a[4])
      [] f = "simpleValue" -> simpleValue(a[1], a[2], a[3], a[4])
      [] f = "mapSimpleFrom" -> mapSimpleFrom(a[1], a[2], a[3], a[4], a[5])
      [] f = "insertSimpleRow" -> insertSimpleRow(a[1], a[2], a[3], a[4], a[5])
      [] f = "insertData" -> insertData(a[1], a[2], a[3], a[4], a[5])
      [] f = "validateSQLiteType" -> validateSQLiteType(a[1])
      [] f = "createTablesFrom" -> createTablesFrom(a[1], a[2], a[3])
      [] f = "generateMetadataFrom" -> generateMetadataFrom(a[1], a[2], a[3])
      [] f = "processAndStoreJson" -> processAndStoreJson(a[1], a[2], a[3])
      [] f = "matchesAt" -> matchesAt(a[1], a[2], a[3], a[4])
      [] f = "regexTest" -> regexTest(a[1], a[2])
      [] f = "validateAnalyticalSql" -> validateAnalyticalSql(a[1])
      [] f = "minLength" -> minLength(a[1], a[2])
      [] f = "jsonParse" -> jsonParse(a[1])
      [] f = "resolveRowFrom" -> resolveRowFrom(a[1], a[2], a[3])
      [] f = "executeEnhancedSql" -> executeEnhancedSql(a[1], a[2])

(***************************************************************************)
(* The state machine.  A compartment is the Durable Object named by one    *)
(* access id: stage creates it from a GraphQL result, query runs one       *)
(* statement against it.  The chunk store is also driven on its own.       *)
(***************************************************************************)
Compartments == {1, 2}
MaxQueries == 2
MaxStored == 2
MaxReads == 2
MaxNameLen == 3
MaxApplications == 2
MaxValues == 3
Seeds == {"r", "q"}
Platforms == {"gzip", "none"}

ChunkTexts ==
    <<repeatTo("ACGT", CHUNK_SIZE_THRESHOLD + 1), LongText, LongProse,
      repeatTo("ab\"c\\d ", 50000)>>

freshCompartment ==
    [status |-> "fresh", db |-> emptyStorage, payload |-> 0, rnd |-> "", result |-> <<>>,
     tokens |-> {}, nq |-> 0, lastSql |-> "", response |-> <<>>]

Init ==
    /\ comp = [c \in Compartments |-> freshCompartment]
    /\ store = [db |-> emptyStorage, handed |-> <<>>, reads |-> 0, last |-> <<>>]
    /\ norm = [name |-> "", fn |-> "none", outs |-> <<>>]
    /\ observed = [values |-> <<>>, seen |-> 0, types |-> <<>>, resolved |-> <<>>]
    /\ worker = [datasetRegistry |-> {}, lastDelete |-> <<>>]

\* stageDataInDurableObject: POST /process to the compartment of a fresh access id
Stage(c, p, rnd, platform) ==
    /\ comp[c].status = "fresh"
    /\ LET r == call("processAndStoreJson", <<comp[c].db, requestJson(Payloads[p]),
                                    [rnd |-> rnd, uuid |-> "u", platform |-> platform]>>)
       IN  comp' = [comp EXCEPT ![c] = [status |-> "staged", db |-> r.db, payload |-> p,
                                        rnd |-> rnd, result |-> r.result, tokens |-> r.tokens,
                                        nq |-> 0, lastSql |-> "", response |-> <<>>]]
    \* /process answers 200 whatever the result says, so response.ok holds
    /\ worker' = [worker EXCEPT !.datasetRegistry = @ \cup {c}]
    /\ UNCHANGED <<store, norm, observed>>

\* executeSQLQuery: POST /query-enhanced to a compartment
Query(c, q) ==
    /\ comp[c].status = "staged"
    /\ comp[c].nq < MaxQueries
    /\ LET r == call("executeEnhancedSql", <<comp[c].db, Statements[q]>>)
       IN  comp' = [comp EXCEPT ![c].db = r.db, ![c].response = r.response,
                                ![c].nq = @ + 1, ![c].lastSql = Statements[q].sql]
    /\ UNCHANGED <<store, norm, observed, worker>>

\* the chunk store on its own
StoreText(i, platform) ==
    /\ Len(store.handed) < MaxStored
    /\ LET r == call("storeChunkedContent", <<store.db, ChunkTexts[i], "text",
                                    draw("u", Len(store.handed)), platform>>)
       IN  store' = [db |-> r.db,
                     handed |-> Append(store.handed,
                                       [reference |-> createContentReference(r.metadata),
                                        text |-> ChunkTexts[i], platform |-> platform,
                                        metadata |-> r.metadata]),
                     reads |-> store.reads, last |-> <<>>]
    /\ UNCHANGED <<comp, norm, observed, worker>>

RetrieveText(h) ==
    /\ h \in 1..Len(store.handed)
    /\ store.reads < MaxReads
    /\ LET r == call("retrieveChunkedContent", <<store.db, extractContentId(store.handed[h].reference)>>)
       IN  store' = [store EXCEPT !.db = r.db, !.reads = @ + 1,
                                  !.last = [h |-> h, found |-> r.found, content |-> r.content]]
    /\ UNCHANGED <<comp, norm, observed, worker>>

Next ==
    \/ \E p \in 1..Len(Payloads), platform \in Platforms : Stage(1, p, "r", platform)
    \/ \E q \in 1..Len(Statements) : Query(1, q)

Spec == Init /\ [][Next]_vars

NextPair ==
    \E c \in Compartments, p \in 1..Len(Payloads), rnd \in Seeds : Stage(c, p, rnd, "gzip")

SpecPair == Init /\ [][NextPair]_vars

NextChunk ==
    \/ \E i \in 1..Len(ChunkTexts), platform \in Platforms : StoreText(i, platform)
    \/ \E h \in 1..MaxStored : RetrieveText(h)

SpecChunk == Init /\ [][NextChunk]_vars

\* DELETE /datasets/<id>: deleted is whether the compartment's storage.deleteAll() returned
DeleteDataset(id, deleted) ==
    IF id \notin worker.datasetRegistry
    THEN /\ worker' = [worker EXCEPT !.lastDelete = [id |-> id, status |-> 404, contacted |-> FALSE]]
         /\ UNCHANGED <<comp, store, norm, observed>>
    ELSE IF deleted
    THEN /\ comp' = [comp EXCEPT ![id] = [freshCompartment EXCEPT !.status = "deleted"]]
         /\ worker' = [datasetRegistry |-> worker.datasetRegistry \ {id},
                       lastDelete |-> [id |-> id, status |-> 200, contacted |-> TRUE]]
         /\ UNCHANGED <<store, norm, observed>>
    ELSE /\ worker' = [worker EXCEPT !.lastDelete = [id |-> id, status |-> 500, contacted |-> TRUE]]
         /\ UNCHANGED <<comp, store, norm, observed>>

NextRegistry ==
    \/ \E c \in Compartments, p \in 1..Len(Payloads) : Stage(c, p, "r", "gzip")
    \/ \E id \in Compartments, deleted \in BOOLEAN : DeleteDataset(id, deleted)

SpecRegistry == Init /\ [][NextRegistry]_vars

\* the sanitisers on their own: an identifier is given, one sanitiser is applied to it
\* and then to what it returned
NameChars == {"a", "S", "_", "1", "$"}
RECURSIVE namesUpTo(_)
namesUpTo(n) ==
    IF n = 0 THEN {""}
    ELSE namesUpTo(n - 1) \cup {s \o c : s \in namesUpTo(n - 1), c \in NameChars}
NameWords ==
    reservedWords \cup {openTargetsTerms[i][1] : i \in 1..Len(openTargetsTerms)}
        \cup {"Table", "KEY", "table_", "_order", "ensemblId", "approvedSymbol", "order_by",
              "fallback_table", "target.id", "2nd place"}
NameInputs == namesUpTo(MaxNameLen) \cup NameWords
\* Math.random().toString(36).substr(2, 9): the digits after "0." in base 36, none for 0
Suffixes == {"", "k3x9", "7"}

InitNames ==
    /\ comp = [c \in Compartments |-> freshCompartment]
    /\ store = [db |-> emptyStorage, handed |-> <<>>, reads |-> 0, last |-> <<>>]
    /\ norm \in {[name |-> n, fn |-> "", outs |-> <<>>] : n \in NameInputs}
    /\ observed = [values |-> <<>>, seen |-> 0, types |-> <<>>, resolved |-> <<>>]
    /\ worker = [datasetRegistry |-> {}, lastDelete |-> <<>>]

given(n) == IF n.outs = <<>> THEN n.name ELSE n.outs[Len(n.outs)]

SanitizeTableName(r) ==
    /\ norm.fn \in {"", "sanitizeTableName"}
    /\ Len(norm.outs) < MaxApplications
    /\ norm' = [norm EXCEPT !.fn = "sanitizeTableName",
                            !.outs = Append(@, sanitizeTableName(given(norm), r))]
    /\ UNCHANGED <<comp, store, observed, worker>>

SanitizeColumnName(r) ==
    /\ norm.fn \in {"", "sanitizeColumnName"}
    /\ Len(norm.outs) < MaxApplications
    /\ norm' = [norm EXCEPT !.fn = "sanitizeColumnName",
                            !.outs = Append(@, sanitizeColumnName(given(norm), r))]
    /\ UNCHANGED <<comp, store, observed, worker>>

ValidateAndFixIdentifier(type) ==
    /\ norm.fn \in {"", "validateAndFixIdentifier:" \o type}
    /\ Len(norm.outs) < MaxApplications
    /\ norm' = [norm EXCEPT !.fn = "validateAndFixIdentifier:" \o type,
                            !.outs = Append(@, validateAndFixIdentifier(given(norm), type))]
    /\ UNCHANGED <<comp, store, observed, worker>>

NextNames ==
    \/ \E r \in Suffixes : SanitizeTableName(r)
    \/ \E r \in Suffixes : SanitizeColumnName(r)
    \/ \E type \in {"table", "column"} : ValidateAndFixIdentifier(type)

SpecNames == InitNames /\ [][NextNames]_vars

\* type resolution on its own: the values of one column are observed one by one
ObservedValues ==
    {JNull, JUndef, JBool(TRUE), JBool(FALSE), JInt(1), JInt(0), JReal(1, 5), JStr("x"),
     JStr("1"), JArr(<<>>)}
RECURSIVE valuesUpTo(_)
valuesUpTo(n) ==
    IF n = 0 THEN {<<>>}
    ELSE valuesUpTo(n - 1) \cup {Append(q, v) : q \in valuesUpTo(n - 1), v \in ObservedValues}

InitTypes ==
    /\ comp = [c \in Compartments |-> freshCompartment]
    /\ store = [db |-> emptyStorage, handed |-> <<>>, reads |-> 0, last |-> <<>>]
    /\ norm = [name |-> "", fn |-> "none", outs |-> <<>>]
    /\ observed \in {[values |-> q, seen |-> 0, types |-> <<>>, resolved |-> <<>>] :
                        q \in valuesUpTo(MaxValues) \ {<<>>}}
    /\ worker = [datasetRegistry |-> {}, lastDelete |-> <<>>]

\* addColumnType(columnTypes, "c", getSQLiteType(value)) and then resolveColumnTypes
ObserveValue ==
    /\ observed.seen < Len(observed.values)
    /\ LET types == addColumnType(observed.types, "c", getSQLiteType(observed.values[observed.seen + 1]))
       IN  observed' = [observed EXCEPT !.seen = @ + 1, !.types = types,
                                    !.resolved = resolveColumnTypes(types)]
    /\ UNCHANGED <<comp, store, norm, worker>>

NextTypes == ObserveValue

SpecTypes == InitTypes /\ [][NextTypes]_vars

(***************************************************************************)
(* What the properties below speak of: the permanent tables of a           *)
(* compartment, the entities a payload holds directly under data, and the  *)
(* snake_case form of a key.                                               *)
(***************************************************************************)
systemTables == {"content_chunks", "chunk_metadata"}
permanentTables(db) == SelectSeq(db.tables, LAMBDA t : t.kind = "table")
userTables(db) == SelectSeq(permanentTables(db), LAMBDA t : t.name \notin systemTables)
hasPermanent(db, name) == hasObject(db, name, {"table"})
permanentTable(db, name) ==
    db.tables[CHOOSE i \in 1..Len(db.tables) :
                  db.tables[i].name = name /\ db.tables[i].kind = "table"]
cellOf(t, row, col) == row.v[colIndex(t.cols, col)]
columnValues(t, col) == {cellOf(t, t.rows[i], col) : i \in 1..Len(t.rows)}

stagedOk(c) == comp[c].status = "staged" /\ comp[c].result.success

RECURSIVE snakeCase(_)
snakeCase(key) ==
    IF key = "" THEN ""
    ELSE LET c == Ch(key, Len(key))
         IN  snakeCase(SubSeq(key, 1, Len(key) - 1))
             \o (IF c \in UpperChars THEN "_" \o toLowerChar(c) ELSE c)
isWord(key) ==
    key # "" /\ \A i \in 1..Len(key) : Ch(key, i) \in UpperChars \cup LowerChars

\* the entities directly under data, as <<key, entity>>
topEntities(p) ==
    LET data == Get(Payloads[p], "data")
    IN  {<<data.o[i].k, data.o[i].v>> : i \in {j \in 1..Len(data.o) :
            IsObj(data.o[j].v) /\ Has(data.o[j].v, "id") /\ isWord(data.o[j].k)}}
\* the scalar fields of an entity, as <<key, value>>
scalarFields(e) ==
    {<<e.o[i].k, e.o[i].v>> : i \in {j \in 1..Len(e.o) :
        e.o[j].v.t \in {"str", "num"} /\ isWord(e.o[j].k)}}
isLongText(v) == v.t = "str" /\ Len(v.s) > CHUNK_SIZE_THRESHOLD

(***************************************************************************)
(* C1.  After a stage that succeeded, every scalar field of every staged   *)
(* entity is held, with the payload's value, in the column named by the    *)
(* snake_case form of its key in the entity's table, and the query         *)
(* SELECT approved_symbol FROM target on the single-target payload         *)
(* returns the one row {approved_symbol: "AR"}.                            *)
(***************************************************************************)
C1_ScalarFieldsReadable ==
    stagedOk(1) =>
        /\ \A te \in topEntities(comp[1].payload) : \A f \in scalarFields(te[2]) :
              ~isLongText(f[2]) =>
                  /\ hasPermanent(comp[1].db, snakeCase(te[1]))
                  /\ LET t == permanentTable(comp[1].db, snakeCase(te[1]))
                     IN  /\ hasCol(t.cols, snakeCase(f[1]))
                         /\ f[2] \in columnValues(t, snakeCase(f[1]))
        /\ (comp[1].payload = 1 /\ comp[1].nq = 1
              /\ comp[1].lastSql = "SELECT approved_symbol FROM target") =>
              /\ comp[1].response.success
              /\ comp[1].response.results = << <<KV("approved_symbol", JStr("AR"))>> >>

(***************************************************************************)
(* C2.  When an entity has a field holding a graph wrapper ({rows: [...]}  *)
(* or {edges: [{node: ...}]}) whose elements carry entities, a successful  *)
(* stage leaves a table for the nested entity type, a junction table named *)
(* by the alphabetical join of the two type names, and in it one row per   *)
(* distinct (parent, nested entity) pair: two rows for the one-to-many     *)
(* payloads, whose nested types are disease and drug under target.         *)
(***************************************************************************)
wrapperPayloads ==
    {[p |-> 2, parent |-> "target", nested |-> "disease", pairs |-> 2],
     [p |-> 3, parent |-> "target", nested |-> "drug", pairs |-> 2]}

C2_WrappersUnwrapped ==
    \A w \in wrapperPayloads :
        (stagedOk(1) /\ comp[1].payload = w.p /\ comp[1].nq = 0) =>
            /\ hasPermanent(comp[1].db, w.parent)
            /\ hasPermanent(comp[1].db, w.nested)
            /\ hasPermanent(comp[1].db, sortJoin(w.parent, w.nested))
            /\ Len(permanentTable(comp[1].db, sortJoin(w.parent, w.nested)).rows) = w.pairs

(***************************************************************************)
(* C3.  After any stage, for every row of every junction table named A_B,  *)
(* the value in column A_id is the id of a row of table A and the value in *)
(* column B_id is the id of a row of table B.                              *)
(***************************************************************************)
junctionsOf(db) ==
    {<<j, a, b>> \in (1..Len(db.tables)) \X (1..Len(db.tables)) \X (1..Len(db.tables)) :
        /\ db.tables[j].kind = "table" /\ db.tables[a].kind = "table"
        /\ db.tables[b].kind = "table"
        /\ db.tables[j].name = db.tables[a].name \o "_" \o db.tables[b].name
        /\ hasCol(db.tables[j].cols, db.tables[a].name \o "_id")
        /\ hasCol(db.tables[j].cols, db.tables[b].name \o "_id")
        /\ hasCol(db.tables[a].cols, "id") /\ hasCol(db.tables[b].cols, "id")}

endpointsExist(db, j, a) ==
    \A i \in 1..Len(db.tables[j].rows) :
        cellOf(db.tables[j], db.tables[j].rows[i], db.tables[a].name \o "_id")
            \in columnValues(db.tables[a], "id")

C3_JunctionEndpointsExist ==
    (comp[1].status = "staged" /\ comp[1].nq = 0) =>
        \A x \in junctionsOf(comp[1].db) :
            endpointsExist(comp[1].db, x[1], x[2]) /\ endpointsExist(comp[1].db, x[1], x[3])

(***************************************************************************)
(* C4.  In every state in which the chunk store has returned a reference   *)
(* token __CHUNKED__:<id>, chunk_metadata holds exactly one record for     *)
(* <id> and content_chunks holds exactly total_chunks records for <id>,    *)
(* whose chunk_index values are exactly 0 .. total_chunks - 1.             *)
(***************************************************************************)
chunkRecordsComplete(db, contentId) ==
    /\ hasPermanent(db, "chunk_metadata") /\ hasPermanent(db, "content_chunks")
    /\ LET m == permanentTable(db, "chunk_metadata")
           c == permanentTable(db, "content_chunks")
           meta == SelectSeq(m.rows, LAMBDA r : cellOf(m, r, "content_id") = JStr(contentId))
           chunks == SelectSeq(c.rows, LAMBDA r : cellOf(c, r, "content_id") = JStr(contentId))
       IN  /\ Len(meta) = 1
           /\ cellOf(m, meta[1], "total_chunks").t = "num"
           /\ Len(chunks) = cellOf(m, meta[1], "total_chunks").n
           /\ {cellOf(c, chunks[i], "chunk_index") : i \in 1..Len(chunks)}
                  = {JInt(i) : i \in 0..(Len(chunks) - 1)}

C4_TokenHasAllChunks ==
    \A token \in comp[1].tokens : chunkRecordsComplete(comp[1].db, extractContentId(token))

(***************************************************************************)
(* C5.  For every text s longer than the chunk threshold, retrieving the   *)
(* content id that storing s returned yields exactly s, whether the store  *)
(* compressed the text or compression failed.                              *)
(***************************************************************************)
C5_RetrieveReturnsStored ==
    store.last # <<>> =>
        /\ Len(store.handed[store.last.h].text) > CHUNK_SIZE_THRESHOLD
        /\ store.last.found
        /\ store.last.content = store.handed[store.last.h].text

\* a text of several chunks stored compressed is read back after a second text was stored
C5_Witness ==
    /\ store.last # <<>>
    /\ Len(store.handed) = 2
    /\ store.last.h = 1
    /\ store.handed[1].metadata.compressed
    /\ store.handed[1].metadata.totalChunks > 1
    /\ ~store.handed[2].metadata.compressed
    /\ store.last.content = store.handed[1].text

(***************************************************************************)
(* C6.  When a staged entity has a scalar text field longer than the chunk *)
(* threshold, the stored cell of its column is a chunk reference token,    *)
(* chunk_metadata holds exactly one row, whose original_size is the length *)
(* of the text, and a gated query that selects the column returns the      *)
(* whole text.                                                             *)
(***************************************************************************)
C6_LongScalarTextChunked ==
    stagedOk(1) =>
        \A te \in topEntities(comp[1].payload) : \A f \in scalarFields(te[2]) :
            isLongText(f[2]) =>
                /\ comp[1].nq = 0 =>
                      /\ hasPermanent(comp[1].db, snakeCase(te[1]))
                      /\ LET t == permanentTable(comp[1].db, snakeCase(te[1]))
                         IN  /\ hasCol(t.cols, snakeCase(f[1]))
                             /\ \A v \in columnValues(t, snakeCase(f[1])) : isContentReference(v)
                      /\ hasPermanent(comp[1].db, "chunk_metadata")
                      /\ LET m == permanentTable(comp[1].db, "chunk_metadata")
                         IN  /\ Len(m.rows) = 1
                             /\ cellOf(m, m.rows[1], "original_size") = JInt(Len(f[2].s))
                /\ (comp[1].nq = 1 /\ comp[1].lastSql = "  select * from " \o snakeCase(te[1])) =>
                      /\ comp[1].response.success
                      /\ Len(comp[1].response.results) = 1
                      /\ MapGet(comp[1].response.results[1], snakeCase(f[1])) = f[2]

(***************************************************************************)
(* C7.  After a stage has completed, no query changes the rows or the      *)
(* existence of a permanent table, user-derived or system: a query step    *)
(* adds or removes temporary tables and views only.                        *)
(***************************************************************************)
C7_QueriesPreservePermanentTables ==
    [][\A c \in Compartments :
          comp[c].status = "staged" =>
              permanentTables(comp'[c].db) = permanentTables(comp[c].db)]_vars

(***************************************************************************)
(* C8.  A query whose trimmed, lowercased text begins with none of the     *)
(* allowed starters, or whose text matches a blocked pattern, is not       *)
(* handed to the SQL engine: the compartment's storage, statement log      *)
(* included, is unchanged and the response is {success: false, error,      *)
(* query}.                                                                 *)
(***************************************************************************)
beginsAllowed(sql) ==
    \E i \in 1..Len(allowedStarters) : startsWith(toLowerCase(trim(sql)), allowedStarters[i])
matchesBlocked(sql) ==
    \E i \in 1..Len(blockedPatterns) : regexTest(blockedPatterns[i], sql)

C8_RejectedBeforeEngine ==
    [][\A c \in Compartments :
          (comp'[c].nq # comp[c].nq
             /\ (~beginsAllowed(comp'[c].lastSql) \/ matchesBlocked(comp'[c].lastSql))) =>
              /\ comp'[c].db = comp[c].db
              /\ DOMAIN comp'[c].response = {"success", "error", "query"}
              /\ comp'[c].response.success = FALSE
              /\ comp'[c].response.error # ""
              /\ comp'[c].response.query = comp'[c].lastSql]_vars

\* a blocked statement that begins with an allowed starter was refused against a
\* compartment that holds the table it names
C8_Witness ==
    /\ comp[1].status = "staged"
    /\ hasPermanent(comp[1].db, "target")
    /\ comp[1].lastSql = "WITH x AS (SELECT 1) UPDATE target SET id = 'X'"
    /\ comp[1].response.success = FALSE
    /\ Len(comp[1].db.log) > 0
    /\ comp[1].db.log[Len(comp[1].db.log)].op # "update"

(***************************************************************************)
(* C9.  Staging the same payload into two fresh compartments yields the    *)
(* same set of table names, the same column names per table and the same   *)
(* set of junction pairs.                                                  *)
(***************************************************************************)
tableShapes(db) ==
    {<<userTables(db)[i].name, {userTables(db)[i].cols[j].k : j \in 1..Len(userTables(db)[i].cols)}>> :
        i \in 1..Len(userTables(db))}
junctionPairs(db) ==
    {<<db.tables[x[1]].name,
       {<<cellOf(db.tables[x[1]], db.tables[x[1]].rows[i], db.tables[x[2]].name \o "_id"),
          cellOf(db.tables[x[1]], db.tables[x[1]].rows[i], db.tables[x[3]].name \o "_id")>> :
           i \in 1..Len(db.tables[x[1]].rows)}>> : x \in junctionsOf(db)}

C9_SamePayloadSameShape ==
    (comp[1].status = "staged" /\ comp[2].status = "staged"
       /\ comp[1].payload = comp[2].payload) =>
        /\ tableShapes(comp[1].db) = tableShapes(comp[2].db)
        /\ junctionPairs(comp[1].db) = junctionPairs(comp[2].db)

(***************************************************************************)
(* C10.  After any stage, every name of a user-derived table and every     *)
(* name of a column of one matches ^[a-z_][a-z0-9_]*$ and is none of the   *)
(* reserved words.                                                         *)
(***************************************************************************)
wordsNeverNames ==
    {"table", "index", "view", "column", "primary", "key", "foreign", "constraint", "order",
     "group", "select", "from", "where", "insert", "update", "delete", "create", "drop",
     "alter", "join", "inner", "outer", "left", "right", "union", "all", "distinct",
     "having", "limit", "offset", "as", "on"}
wellFormedName(name) ==
    /\ name # ""
    /\ Ch(name, 1) \in LowerChars \cup {"_"}
    /\ \A i \in 1..Len(name) : Ch(name, i) \in LowerChars \cup DigitChars \cup {"_"}
    /\ name \notin wordsNeverNames

C10_NamesWellFormed ==
    comp[1].status = "staged" =>
        \A i \in 1..Len(userTables(comp[1].db)) :
            /\ wellFormedName(userTables(comp[1].db)[i].name)
            /\ \A j \in 1..Len(userTables(comp[1].db)[i].cols) :
                  wellFormedName(userTables(comp[1].db)[i].cols[j].k)

\* a payload whose type and field are reserved words was staged: its table and column
\* carry the suffixed names
C10_Witness ==
    /\ comp[1].status = "staged"
    /\ comp[1].payload = 12
    /\ hasPermanent(comp[1].db, "order_tbl")
    /\ hasCol(permanentTable(comp[1].db, "order_tbl").cols, "limit_col")

(***************************************************************************)
(* What the properties about reconstitution speak of: the statements that  *)
(* read a whole permanent table, and the chunk records behind a reference. *)
(***************************************************************************)
wholeTableSelects ==
    {q \in 1..Len(Statements) :
        /\ Statements[q].ast.op = "select" /\ Statements[q].ast.cols = <<>>
        /\ Statements[q].ast.table \in {"target", "array_data", "chunk_metadata"}}
recordsFor(db, table, contentId) ==
    IF ~hasPermanent(db, table) THEN <<>>
    ELSE SelectSeq(permanentTable(db, table).rows,
                   LAMBDA r : cellOf(permanentTable(db, table), r, "content_id") = JStr(contentId))
notFoundSentinel(contentId) == JStr("[CHUNKED_CONTENT_NOT_FOUND:" \o contentId \o "]")
isErrorSentinel(v) == v.t = "str" /\ startsWith(v.s, "[CHUNKED_CONTENT_ERROR:")
\* the last request of compartment c was statement q, a read of a permanent table it holds
answered(c, q) ==
    /\ comp[c].status = "staged" /\ comp[c].nq > 0
    /\ comp[c].lastSql = Statements[q].sql
    /\ hasPermanent(comp[c].db, Statements[q].ast.table)

(***************************************************************************)
(* C11.  When a query reads a table, a cell holding a chunk reference      *)
(* whose metadata record is missing comes back as                          *)
(* [CHUNKED_CONTENT_NOT_FOUND:<id>], a cell whose metadata record exists   *)
(* but whose number of chunk records differs from total_chunks comes back  *)
(* as a [CHUNKED_CONTENT_ERROR:...] sentinel, and in both cases the query  *)
(* succeeds with every other cell as stored.                               *)
(***************************************************************************)
C11_MissingAndCorruptSentinels ==
    \A q \in wholeTableSelects :
        answered(1, q) =>
            LET db == comp[1].db
                t == permanentTable(db, Statements[q].ast.table)
            IN  /\ comp[1].response.success
                /\ Len(comp[1].response.results) = Len(t.rows)
                /\ \A i \in 1..Len(t.rows), j \in 1..Len(t.cols) :
                      LET stored == t.rows[i].v[j]
                          shown == MapGet(comp[1].response.results[i], t.cols[j].k)
                          contentId == extractContentId(stored.s)
                          metadata == recordsFor(db, "chunk_metadata", contentId)
                          chunks == recordsFor(db, "content_chunks", contentId)
                      IN  IF ~isContentReference(stored) THEN shown = stored
                          ELSE /\ Len(metadata) = 0 => shown = notFoundSentinel(contentId)
                               /\ (Len(metadata) = 1
                                     /\ Len(chunks) # cellOf(permanentTable(db, "chunk_metadata"),
                                                             metadata[1], "total_chunks").n)
                                    => isErrorSentinel(shown)

(***************************************************************************)
(* C12.  In the response of a successful query, chunked_content_resolved   *)
(* is true exactly when some result cell was a chunk reference and was     *)
(* rewritten; every cell that is not a text beginning with __CHUNKED__: is *)
(* returned unchanged; the number of rows and the keys of each row are     *)
(* those of the plain result; and a reference whose content the store      *)
(* returns is replaced by that content (parsed as JSON when it parses),    *)
(* even when the content itself reads as a chunk reference.                *)
(***************************************************************************)
statementOf(sql) == Statements[CHOOSE q \in 1..Len(Statements) : Statements[q].sql = sql]
isStoredContent(value, content) ==
    \/ value = JStr(content)
    \/ value.t \in {"str", "arr", "obj", "num", "null", "bool"} /\ Stringify(value) = content

C12_ResolvedFlagAndFrame ==
    [][\A c \in Compartments :
          (comp'[c].nq # comp[c].nq /\ comp'[c].response.success) =>
              LET plain == executeSql(comp[c].db, statementOf(comp'[c].lastSql)).response.results
                  shown == comp'[c].response.results
                  cells == {<<i, j>> \in (1..Len(plain)) \X (1..10) : j <= Len(plain[i])}
                  rewritten == {x \in cells : /\ isContentReference(plain[x[1]][x[2]].v)
                                               /\ shown[x[1]][x[2]] # plain[x[1]][x[2]]}
              IN  /\ Len(shown) = Len(plain)
                  /\ \A i \in 1..Len(plain) : MapKeys(shown[i]) = MapKeys(plain[i])
                  /\ \A x \in cells :
                        LET before == plain[x[1]][x[2]].v
                            after == shown[x[1]][x[2]].v
                            got == retrieveChunkedContent(comp[c].db, extractContentId(before.s))
                        IN  IF ~isContentReference(before) THEN after = before
                            ELSE got.found => isStoredContent(after, got.content)
                  /\ comp'[c].response.chunked_content_resolved = (rewritten # {})]_vars

\* a read returned one row untouched and, in the next row, the stored text of a reference,
\* a text that itself begins with __CHUNKED__:
C12_Witness ==
    /\ answered(1, 15)
    /\ comp[1].payload = 24
    /\ comp[1].response.chunked_content_resolved
    /\ Len(comp[1].response.results) = 2
    /\ MapGet(comp[1].response.results[1], "a_json") = JStr("{\"x\":1}")
    /\ MapGet(comp[1].response.results[2], "a_json") = JStr(ReferenceLike)
    /\ isContentReference(MapGet(comp[1].response.results[2], "a_json"))

(***************************************************************************)
(* C13.  When an INSERT of one entity row raises during a stage, the other *)
(* entities of the payload are still inserted: after such a stage every    *)
(* entity directly under data whose table was created with a column for    *)
(* each of its scalar fields has its row in that table.                    *)
(***************************************************************************)
\* the stage of compartment c ended on an INSERT that raised
rowInsertRaised(c) ==
    /\ comp[c].status = "staged" /\ comp[c].nq = 0
    /\ ~comp[c].result.success
    /\ Len(comp[c].db.log) > 0
    /\ comp[c].db.log[Len(comp[c].db.log)].op = "insert"
\* the table of the entity under key exists and names every scalar field of the entity
insertable(db, te) ==
    /\ snakeCase(te[1]) \notin sqliteKeywords
    /\ hasPermanent(db, snakeCase(te[1]))
    /\ \A f \in scalarFields(te[2]) :
          /\ snakeCase(f[1]) \notin sqliteKeywords
          /\ hasCol(permanentTable(db, snakeCase(te[1])).cols, snakeCase(f[1]))

C13_RowFailureIsLocal ==
    rowInsertRaised(1) =>
        \A te \in topEntities(comp[1].payload) :
            insertable(comp[1].db, te) =>
                Get(te[2], "id") \in columnValues(permanentTable(comp[1].db, snakeCase(te[1])), "id")

(***************************************************************************)
(* What the properties about a stage speak of: the value the stage works   *)
(* on, the schemas inference gives for it, and the storage as the          *)
(* statements of table creation and insertion leave it.                    *)
(***************************************************************************)
stagedData(p) ==
    LET jsonData == requestJson(Payloads[p])
    IN  IF jsonData.t = "obj" /\ Truthy(Get(jsonData, "data")) THEN Get(jsonData, "data")
        ELSE jsonData
inferredSchemas(c) == inferFromJSON(stagedData(comp[c].payload), comp[c].rnd)
writtenBy(c, platform) ==
    insertData(createTables(emptyStorage, inferredSchemas(c).schemas), stagedData(comp[c].payload),
               inferredSchemas(c).schemas, inferredSchemas(c).k,
               [rnd |-> comp[c].rnd, uuid |-> "u", platform |-> platform])

minimalShape == <<KV("id", "INTEGER PRIMARY KEY AUTOINCREMENT"), KV("data_json", "TEXT")>>
ddlColumns(columns) ==
    [j \in 1..Len(columns) |-> KV(validateAndFixIdentifier(columns[j].k, "column"),
                                  validateSQLiteType(columns[j].v))]

C15_TableOrMinimalShape ==
    (comp[1].status = "staged" /\ comp[1].nq = 0) =>
        \A i \in 1..Len(inferredSchemas(1).schemas) :
            LET schema == inferredSchemas(1).schemas[i]
                name == validateAndFixIdentifier(schema.k, "table")
            IN  Len(schema.v) > 0 =>
                    /\ hasPermanent(comp[1].db, name)
                    /\ permanentTable(comp[1].db, name).cols \in {ddlColumns(schema.v), minimalShape}

(***************************************************************************)
(* C16.  When inference discovers no entity in the payload, the stage      *)
(* leaves exactly one user table, and it is filled: scalar_data with one   *)
(* row holding the value for a scalar, array_data with one row per element *)
(* for an array (column value having the widened type when the elements    *)
(* are scalars), root_object with one row for a map.                       *)
(***************************************************************************)
noEntities(p) ==
    discoverEntities(stagedData(p), <<>>, "", [ents |-> <<>>, rels |-> <<>>, k |-> 0], "r").ents = <<>>
fallbackName(data) ==
    IF data.t = "arr" THEN "array_data" ELSE IF data.t = "obj" THEN "root_object" ELSE "scalar_data"
isScalar(v) == v.t \in {"null", "num", "str", "bool"}
columnType(t, col) == t.cols[colIndex(t.cols, col)].v

C16_FallbackTableFilled ==
    (comp[1].status = "staged" /\ comp[1].nq = 0 /\ noEntities(comp[1].payload)) =>
        LET data == stagedData(comp[1].payload)
            db == comp[1].db
            name == fallbackName(data)
        IN  /\ {userTables(db)[i].name : i \in 1..Len(userTables(db))} = {name}
            /\ hasPermanent(db, name)
            /\ LET t == permanentTable(db, name)
               IN  CASE data.t = "arr" ->
                          /\ Len(t.rows) = Len(data.a)
                          /\ (\A i \in 1..Len(data.a) : isScalar(data.a[i])) =>
                                /\ hasCol(t.cols, "value")
                                /\ columnType(t, "value")
                                      = resolveColumnType({getSQLiteType(data.a[i]) : i \in 1..Len(data.a)})
                     [] data.t = "obj" -> Len(t.rows) = 1
                     [] OTHER ->
                          /\ Len(t.rows) = 1
                          /\ hasCol(t.cols, "value")
                          /\ cellOf(t, t.rows[1], "value") = data

(***************************************************************************)
(* C17.  Staging the empty map {} succeeds and leaves a table root_object  *)
(* that has an id column and exactly one row.                              *)
(***************************************************************************)
isEmptyMap(v) == v.t = "obj" /\ v.o = <<>>

C17_EmptyMapOneRow ==
    (comp[1].status = "staged" /\ comp[1].nq = 0 /\ isEmptyMap(stagedData(comp[1].payload))) =>
        /\ comp[1].result.success
        /\ hasPermanent(comp[1].db, "root_object")
        /\ hasCol(permanentTable(comp[1].db, "root_object").cols, "id")
        /\ Len(permanentTable(comp[1].db, "root_object").rows) = 1

(***************************************************************************)
(* C18.  A value whose serialised text is at most CHUNK_SIZE_THRESHOLD     *)
(* characters long is stored as that text and adds no row to               *)
(* content_chunks or chunk_metadata: every row of chunk_metadata a stage   *)
(* wrote records an original size above the threshold, and a stage whose   *)
(* payload holds no value with a longer serialised text leaves no chunk    *)
(* row, no metadata row and only literal serialised texts in its _json     *)
(* columns.                                                                *)
(***************************************************************************)
\* the rows the chunk store wrote: those of a table of its name that has its key column
\* (a table of that name made for a type of the payload is a user table, see C29)
systemRows(db, table) ==
    IF hasPermanent(db, table) /\ hasCol(permanentTable(db, table).cols, "content_id")
    THEN permanentTable(db, table).rows ELSE <<>>
overThreshold(data) == {v \in subValues(data) : Len(Stringify(v)) > CHUNK_SIZE_THRESHOLD}
jsonCells(db) ==
    UNION {UNION {IF endsWith(userTables(db)[i].cols[j].k, "_json")
                  THEN columnValues(userTables(db)[i], userTables(db)[i].cols[j].k)
                  ELSE {} : j \in 1..Len(userTables(db)[i].cols)} : i \in 1..Len(userTables(db))}

C18_AtMostThresholdStoredLiterally ==
    (stagedOk(1) /\ comp[1].nq = 0) =>
        LET data == stagedData(comp[1].payload)
            db == comp[1].db
            meta == systemRows(db, "chunk_metadata")
        IN  /\ \A i \in 1..Len(meta) :
                   cellOf(permanentTable(db, "chunk_metadata"), meta[i], "original_size").n
                       > CHUNK_SIZE_THRESHOLD
            /\ overThreshold(data) = {} =>
                   /\ systemRows(db, "content_chunks") = <<>>
                   /\ meta = <<>>
                   /\ \A c \in jsonCells(db) :
                          c.t = "str" => \E v \in subValues(data) : c.s = Stringify(v)

\* the serialised text of exactly CHUNK_SIZE_THRESHOLD characters is in its cell
C18_Witness ==
    /\ stagedOk(1) /\ comp[1].nq = 0 /\ comp[1].payload = 22
    /\ hasPermanent(comp[1].db, "target")
    /\ \E c \in columnValues(permanentTable(comp[1].db, "target"), "tags_json") :
           /\ c.t = "str" /\ Len(c.s) = CHUNK_SIZE_THRESHOLD
           /\ c.s = Stringify(JArr(<<JStr(AtThreshold)>>))
    /\ systemRows(comp[1].db, "content_chunks") = <<>>

(***************************************************************************)
(* C19.  The identifier sanitisers are total and idempotent: whatever the  *)
(* identifier, each of sanitizeTableName, sanitizeColumnName and           *)
(* validateAndFixIdentifier returns a name, and applied to the name it     *)
(* returned it returns that name again.                                    *)
(***************************************************************************)
C19_TotalAndIdempotent ==
    \A i \in 1..Len(norm.outs) :
        /\ norm.outs[i] # ""
        /\ i > 1 => norm.outs[i] = norm.outs[i - 1]

\* the same, of the calls whose Math.random() was not 0
C19_IdempotentWithSuffix ==
    (\A i \in 1..Len(norm.outs) : norm.outs[i] \notin {"table_", "column_"}) =>
        C19_TotalAndIdempotent

(***************************************************************************)
(* C20.  In a stage the CREATE TABLE of a table is executed before the     *)
(* first INSERT into that table (user, junction and system tables alike),  *)
(* and every INSERT of an entity row is executed before the first INSERT   *)
(* of a junction row.                                                      *)
(***************************************************************************)
\* the names of the junction tables inference derives from the staged payload
junctionNames(c) ==
    LET st == discoverEntities(stagedData(comp[c].payload), <<>>, "",
                               [ents |-> <<>>, rels |-> <<>>, k |-> 0], comp[c].rnd)
    IN  UNION {{sortJoin(st.rels[i].k, st.rels[i].v[j]) : j \in 1..Len(st.rels[i].v)} :
                   i \in 1..Len(st.rels)}
insertsInto(log, j, names) == log[j].op = "insert" /\ log[j].table \in names
\* phase A is over when phase B starts: no entity row is inserted after a junction row
entitiesBeforeJunctions(c) ==
    LET log == comp[c].db.log
        junctions == junctionNames(c)
    IN  \A i, j \in 1..Len(log) :
            (i < j /\ insertsInto(log, i, junctions)) =>
                ~(log[j].op = "insert" /\ log[j].table \notin junctions \cup systemTables)

C20_CreateBeforeInsert ==
    (comp[1].status = "staged" /\ comp[1].nq = 0) =>
        LET log == comp[1].db.log
        IN  /\ \A j \in 1..Len(log) :
                   log[j].op = "insert" =>
                       \E i \in 1..(j - 1) : log[i].op = "create" /\ log[i].table = log[j].table
            /\ entitiesBeforeJunctions(1)

\* the same with the table of an INSERT taken to be the one createTables made for its schema
C20_CreateOfSchemaBeforeInsert ==
    (comp[1].status = "staged" /\ comp[1].nq = 0) =>
        LET log == comp[1].db.log
        IN  /\ \A j \in 1..Len(log) :
                   log[j].op = "insert" =>
                       \E i \in 1..(j - 1) :
                           /\ log[i].op = "create"
                           /\ log[i].table \in {log[j].table,
                                                validateAndFixIdentifier(log[j].table, "table")}
            /\ entitiesBeforeJunctions(1)

\* a stage that inserted entity rows and then junction rows
C20_PhasesHappen ==
    /\ stagedOk(1) /\ comp[1].nq = 0
    /\ \E j \in 1..Len(comp[1].db.log) : insertsInto(comp[1].db.log, j, junctionNames(1))

(***************************************************************************)
(* C21.  Within phase A the row of an entity is inserted before any row    *)
(* that references it: when a row of an entity table carries a value in a  *)
(* column <field>_id naming a nested entity, whose table is <field>, the   *)
(* first INSERT into <field> was executed before the first INSERT into the *)
(* table of the referencing row.                                           *)
(***************************************************************************)
firstInsert(log, table) ==
    IF \E j \in 1..Len(log) : insertsInto(log, j, {table})
    THEN CHOOSE j \in 1..Len(log) :
             /\ insertsInto(log, j, {table})
             /\ \A i \in 1..(j - 1) : ~insertsInto(log, i, {table})
    ELSE Len(log) + 1
\* <<t, f>>: entity table t has a row with a value in column f_id and f is an entity table
references(c) ==
    LET db == comp[c].db
        ts == userTables(db)
    IN  UNION {{<<ts[i].name, SubSeq(ts[i].cols[j].k, 1, Len(ts[i].cols[j].k) - 3)>> :
                    j \in {j \in 1..Len(ts[i].cols) :
                               /\ endsWith(ts[i].cols[j].k, "_id")
                               /\ Len(ts[i].cols[j].k) > 3
                               /\ hasPermanent(db, SubSeq(ts[i].cols[j].k, 1, Len(ts[i].cols[j].k) - 3))
                               /\ \E v \in columnValues(ts[i], ts[i].cols[j].k) : v.t # "null"}} :
                   i \in {i \in 1..Len(ts) : ts[i].name \notin junctionNames(c)}}

C21_ReferencedRowFirst ==
    (comp[1].status = "staged" /\ comp[1].nq = 0) =>
        \A r \in references(1) :
            r[1] # r[2] =>
                firstInsert(comp[1].db.log, r[2]) < firstInsert(comp[1].db.log, r[1])

(***************************************************************************)
(* C22.  Insertion types the entities of a payload as schema inference     *)
(* did: after a stage that succeeded, every entity object inference        *)
(* recorded under type T was inserted under T, and every entity object     *)
(* insertion recorded under a type was recorded under that type by         *)
(* inference.                                                              *)
(***************************************************************************)
discovered(c) ==
    discoverEntities(stagedData(comp[c].payload), <<>>, "",
                     [ents |-> <<>>, rels |-> <<>>, k |-> 0], comp[c].rnd)
\* <<T, oid>> for every object inference recorded / insertion recorded under T
inferredAs(c) ==
    UNION {{<<discovered(c).ents[i].k, discovered(c).ents[i].v[j].oid>> :
                j \in 1..Len(discovered(c).ents[i].v)} : i \in 1..Len(discovered(c).ents)}
insertedAs(c) ==
    LET proc == writtenBy(c, "gzip").proc
    IN  UNION {{<<proc[i].k, proc[i].v[j].k>> : j \in 1..Len(proc[i].v)} : i \in 1..Len(proc)}

C22_InsertedAsInferred ==
    (stagedOk(1) /\ comp[1].nq = 0) => insertedAs(1) = inferredAs(1)

(***************************************************************************)
(* C23.  For every schema inference made, createTables creates the table   *)
(* and its columns under the names that insertion writes to and metadata   *)
(* generation reads from: validateAndFixIdentifier changes neither the     *)
(* name of a table nor the name of a column that inference produced.       *)
(***************************************************************************)
namesAgree(schemas) ==
    \A i \in 1..Len(schemas) :
        /\ validateAndFixIdentifier(schemas[i].k, "table") = schemas[i].k
        /\ \A j \in 1..Len(schemas[i].v) :
               validateAndFixIdentifier(schemas[i].v[j].k, "column") = schemas[i].v[j].k

C23_SameNamesOnBothPaths ==
    (comp[1].status = "staged" /\ comp[1].nq = 0) => namesAgree(inferredSchemas(1).schemas)

(***************************************************************************)
(* C24.  Every value stored in a column belongs to the storage class the   *)
(* column was declared with: an INTEGER column holds integers or NULL, a   *)
(* REAL column holds numbers or NULL; a <field>_id column in particular    *)
(* holds no text.                                                          *)
(***************************************************************************)
inClass(v, type) ==
    IF startsWith(type, "INTEGER") THEN v.t = "null" \/ (v.t = "num" /\ v.f = 0)
    ELSE IF startsWith(type, "REAL") THEN v.t \in {"null", "num"}
    ELSE TRUE

C24_ValuesInDeclaredClass ==
    (comp[1].status = "staged" /\ comp[1].nq = 0) =>
        \A i \in 1..Len(userTables(comp[1].db)) :
            LET t == userTables(comp[1].db)[i]
            IN  \A j \in 1..Len(t.cols) :
                    \A v \in columnValues(t, t.cols[j].k) : inClass(v, t.cols[j].v)

(***************************************************************************)
(* C25.  Within a stage an entity is one payload object: however many      *)
(* paths of the walk reach an object, at most one INSERT into the table of *)
(* its type is executed for it, so a stage executes no more INSERTs into   *)
(* the table of a type than the payload holds objects of that type.        *)
(***************************************************************************)
insertsCount(log, table) == Cardinality({j \in 1..Len(log) : insertsInto(log, j, {table})})
objectsOf(c, type) == {r[2] : r \in {x \in inferredAs(c) : x[1] = type}}

C25_OneInsertPerObject ==
    (stagedOk(1) /\ comp[1].nq = 0) =>
        \A type \in {r[1] : r \in inferredAs(1)} :
            insertsCount(comp[1].db.log, type) <= Cardinality(objectsOf(1, type))

\* an object reached twice by the walk and inserted once
C25_ReachedTwiceInsertedOnce ==
    /\ stagedOk(1) /\ comp[1].nq = 0 /\ comp[1].payload = 13
    /\ insertsCount(comp[1].db.log, "gene") = 1
    /\ Cardinality(objectsOf(1, "gene")) = 1

(***************************************************************************)
(* C26.  Inference emits exactly one junction table for each unordered     *)
(* pair of distinct entity types one of which holds entities of the other, *)
(* named by the two type names in alphabetical order joined by an          *)
(* underscore, and none for a type that holds entities of its own type.    *)
(***************************************************************************)
\* the entity objects a property value holds: itself, or the entities of an array
heldEntities(v) ==
    IF isEntity(v) THEN {v}
    ELSE IF v.t = "arr" THEN {v.a[i] : i \in {i \in 1..Len(v.a) : isEntity(v.a[i])}}
    ELSE {}
typeOfObject(c, e) == CHOOSE T \in {r[1] : r \in inferredAs(c)} : <<T, e.oid>> \in inferredAs(c)
\* <<T, U>>: an object of type T holds an object of type U
relatedTypes(c) ==
    LET ents == discovered(c).ents
    IN  UNION {UNION {UNION {{<<ents[i].k, typeOfObject(c, e)>> :
                                 e \in heldEntities(ents[i].v[j].o[p].v)} :
                          p \in 1..Len(ents[i].v[j].o)} :
                   j \in 1..Len(ents[i].v)} : i \in 1..Len(ents)}
alphabeticalJoin(a, b) == IF strLess(a, b) THEN a \o "_" \o b ELSE b \o "_" \o a

C26_OneJunctionPerPair ==
    (comp[1].status = "staged" /\ comp[1].nq = 0 /\ discovered(1).ents # <<>>) =>
        LET schemas == inferredSchemas(1).schemas
            names == {schemas[i].k : i \in 1..Len(schemas)}
            types == {r[1] : r \in inferredAs(1)}
        IN  /\ Cardinality(names) = Len(schemas)
            /\ names \ types = {alphabeticalJoin(r[1], r[2]) : r \in {x \in relatedTypes(1) : x[1] # x[2]}}

\* the relation of target and disease is seen in both directions, target holds targets
C26_Witness ==
    /\ comp[1].status = "staged" /\ comp[1].nq = 0 /\ comp[1].payload = 29
    /\ {<<"target", "disease">>, <<"disease", "target">>, <<"target", "target">>} \subseteq relatedTypes(1)
    /\ hasPermanent(comp[1].db, "disease_target")
    /\ ~hasPermanent(comp[1].db, "target_disease")
    /\ ~hasPermanent(comp[1].db, "target_target")

(***************************************************************************)
(* C27.  The class resolved for a column is TEXT if TEXT was observed,     *)
(* else REAL if REAL was observed, else INTEGER, where null and undefined  *)
(* are observed as TEXT, booleans and integer numbers as INTEGER, other    *)
(* numbers as REAL and strings as TEXT.                                    *)
(***************************************************************************)
observedClass(v) ==
    CASE v.t \in {"null", "undef"} -> "TEXT"
      [] v.t = "bool" -> "INTEGER"
      [] v.t = "num" /\ v.f = 0 -> "INTEGER"
      [] v.t = "num" /\ v.f # 0 -> "REAL"
      [] v.t = "str" -> "TEXT"
      [] OTHER -> "TEXT"
widest(classes) ==
    IF "TEXT" \in classes THEN "TEXT" ELSE IF "REAL" \in classes THEN "REAL" ELSE "INTEGER"

C27_WidestObservedClass ==
    observed.seen > 0 =>
        LET classes == {observedClass(observed.values[i]) : i \in 1..observed.seen}
        IN  /\ MapGet(observed.types, "c") = classes
            /\ observed.resolved = <<KV("c", widest(classes))>>

\* integers and a non-integer number were observed and nothing else
C27_Witness ==
    /\ observed.seen > 1
    /\ MapGet(observed.types, "c") = {"INTEGER", "REAL"}
    /\ observed.resolved = <<KV("c", "REAL")>>

(***************************************************************************)
(* C28.  The chunk store keeps the compressed form of a text only if       *)
(* compression succeeded and the compressed form is shorter than the text: *)
(* for every text stored, either the metadata says compressed and the      *)
(* chunks together are shorter than the text, or the chunks together are   *)
(* the text, the compressed flag is 0 and there is no encoding label.      *)
(***************************************************************************)
storedForm(db, contentId) ==
    LET rows == recordsFor(db, "content_chunks", contentId)
    IN  joinAll([i \in 1..Len(rows) |->
                    cellOf(permanentTable(db, "content_chunks"), rows[i], "chunk_data").s])
metadataCell(db, contentId, col) ==
    cellOf(permanentTable(db, "chunk_metadata"), recordsFor(db, "chunk_metadata", contentId)[1], col)

C28_CompressedOnlyIfSmaller ==
    \A h \in 1..Len(store.handed) :
        LET text == store.handed[h].text
            id == store.handed[h].metadata.contentId
        IN  IF metadataCell(store.db, id, "compressed") = JInt(1)
            THEN Len(storedForm(store.db, id)) < Len(text)
            ELSE /\ storedForm(store.db, id) = text
                 /\ metadataCell(store.db, id, "compressed") = JInt(0)
                 /\ metadataCell(store.db, id, "encoding") = JNull

\* the same, of the texts whose compressed form is shorter
C28_FallbackWhenCompressionFails ==
    \A h \in 1..Len(store.handed) :
        Len(gzipBase64(store.handed[h].text)) < Len(store.handed[h].text) =>
            LET text == store.handed[h].text
                id == store.handed[h].metadata.contentId
            IN  IF store.handed[h].platform = "gzip"
                THEN /\ metadataCell(store.db, id, "compressed") = JInt(1)
                     /\ Len(storedForm(store.db, id)) < Len(text)
                ELSE /\ storedForm(store.db, id) = text
                     /\ metadataCell(store.db, id, "compressed") = JInt(0)
                     /\ metadataCell(store.db, id, "encoding") = JNull

(***************************************************************************)
(* C29.  No table inference derives from a payload, entity table or        *)
(* junction table, is named content_chunks or chunk_metadata.              *)
(***************************************************************************)
C29_NoUserTableNamedAsChunkStore ==
    (comp[1].status = "staged" /\ comp[1].nq = 0) =>
        \A i \in 1..Len(inferredSchemas(1).schemas) :
            inferredSchemas(1).schemas[i].k \notin systemTables

(***************************************************************************)
(* C30.  After any sequence of stage and dataset-delete requests the       *)
(* registry lists an access id exactly when a compartment was staged       *)
(* successfully for it and has not been deleted successfully since.        *)
(***************************************************************************)
C30_RegistryListsStagedDatasets ==
    \A id \in Compartments :
        id \in worker.datasetRegistry <=> stagedOk(id)

\* the same with every stage that /process answered counted, whatever the answer said
C30_RegistryListsAnsweredStages ==
    \A id \in Compartments :
        id \in worker.datasetRegistry <=> comp[id].status = "staged"

\* a DELETE of an unregistered id answers 404 and contacts no compartment, and an id leaves
\* the registry only in a DELETE the compartment answered with success
C30_DeleteSteps ==
    [][/\ (worker'.lastDelete # worker.lastDelete /\ worker'.lastDelete.id \notin worker.datasetRegistry)
            => (worker'.lastDelete.status = 404 /\ ~worker'.lastDelete.contacted /\ comp' = comp)
       /\ \A id \in worker.datasetRegistry \ worker'.datasetRegistry :
              worker'.lastDelete = [id |-> id, status |-> 200, contacted |-> TRUE]]_vars

=============================================================================
